---- MODULE Spec2Model ----
(***************************************************************************)
(* A model of the syncback core of rojo: the enriched instance tree        *)
(* (snapshot/tree.rs), the file-name rules (syncback/file_names.rs) and    *)
(* the rbxm and directory middlewares (snapshot_middleware/).              *)
(*                                                                         *)
(* The module holds several specifications over one set of variables.      *)
(* Each specification drives one part of the program and leaves the        *)
(* variables of the other parts at their idle values:                      *)
(*   SpecTree     the RojoTree operations applied to live ids              *)
(*   SpecTreeAny  SpecTree plus update_metadata on an id with no entry     *)
(*   SpecFix      fix_unique_id_collisions on trees holding UniqueIds      *)
(*   SpecNames    is_valid_file_name, name_for_inst and syncback_new_path  *)
(*   SpecRbxm     snapshot_rbxm on the files of a small file system        *)
(*   SpecSyncback snapshot_from_vfs, then RojoTree::syncback run twice     *)
(*   SpecDir      DirectoryMiddleware::snapshot on the directories of a    *)
(*                small file system                                        *)
(*   SpecProps    update_props, once, on the trees new() builds            *)
(*   SpecProcess  syncback_process: the ancestor climb, then the loop      *)
(*   SpecProcessFair  SpecProcess with the climb running on                *)
(*   SpecReplace  SpecProcess with a first node that replaces its old      *)
(*                instance (use_snapshot_children)                         *)
(*   SpecDirInit  syncback_process on new trees that hold a DataModel,     *)
(*                written with an init middleware                          *)
(*   SpecRemoval  two syncbacks, the second given a tree with a child      *)
(*                taken out                                                *)
(*   SpecSkip     syncback under syncback ignore rules                     *)
(*   SpecClosure  syncback_process on trees a project file has marked,     *)
(*                with new trees whose root may be a DataModel             *)
(*   SpecRecorded syncback_process on a directory that records an init     *)
(*                file                                                     *)
(*   SpecSwap     syncback_process with a child gone and a Folder come     *)
(*   SpecSwapFair SpecSwap with the call running on to its end             *)
(*   SpecOldName  name_for_inst given an old instance                      *)
(*   SpecClone    clone_and_filter on the subtrees of small new trees      *)
(*   SpecNewDir   syncback_process with a new directory whose children     *)
(*                are of several classes, one claimed by no middleware     *)
(*   SpecBroken   syncback_process on a tree with a directory whose        *)
(*                context syncback_update cannot use                       *)
(*   SpecFallible SpecBroken on a file system whose reconcile may fail     *)
(***************************************************************************)
EXTENDS Integers, Sequences, FiniteSets, TLC

VARIABLES
    inner,          \* RojoTree.inner: the WeakDom, Ref -> Instance
    next_ref,       \* the next Ref the WeakDom hands out (Refs are never reused)
    metadata_map,   \* RojoTree.metadata_map: Ref -> InstanceMetadata
    path_to_ids,    \* RojoTree.path_to_ids: path -> set of Ref
    pc,             \* position of the running operation ("idle" between calls)
    to_move,        \* remove(): the VecDeque of ids still to be stripped
    rm_id,          \* remove(): the id the call was made with
    last_op,        \* the last call made and what it was given
    processing,     \* fix_unique_id_collisions(): the Vec of refs still to visit
    ids,            \* fix_unique_id_collisions(): the HashSet of id strings seen
    inner0,         \* the WeakDom as it was when fix_unique_id_collisions began
    call,           \* the arguments of the function a specification calls
    ret,            \* what that function returned
    vfs,            \* the file system: path -> file contents or directory
    new_dom,        \* syncback(): the new WeakDom, read only
    diff,           \* syncback(): the DeepDiff built when the call began
    syncable,       \* syncback_process(): the node the ancestor climb stands at
    trace           \* syncback_process(): what the run has done so far, in order

treeVars == <<inner, next_ref, metadata_map, path_to_ids>>
removeVars == <<to_move, rm_id>>
fixVars == <<processing, ids, inner0>>
fnVars == <<call, ret>>
syncVars == <<new_dom, diff, syncable, trace>>

\* The variables the RojoTree operations leave alone.
notTree == <<fixVars, fnVars, vfs, syncVars>>

\* The variables fix_unique_id_collisions leaves alone.
notFix == <<next_ref, metadata_map, path_to_ids, removeVars, fnVars, vfs, syncVars>>

\* The variables a function of its arguments alone leaves alone.
notFn == <<treeVars, removeVars, fixVars, last_op, vfs, syncVars>>

vars == <<treeVars, removeVars, fixVars, fnVars, vfs, syncVars, pc, last_op>>

----------------------------------------------------------------------------
(* Bounds and input sets *)

\* Refs ever allocated by one tree.
MaxRefs == 3

\* Children a snapshot given to new / insert_instance carries.
MaxSnapshotChildren == 2

\* Ref::none(), the parent of the root.
NoRef == 0

\* WeakDom::new hands the root the first Ref.
RootRef == 1

Refs == 1..MaxRefs

Paths == {"/a", "/b"}

\* The relevant_paths vectors the inputs carry.
RelevantPathsChoices == {<< >>, <<"/a">>, <<"/b", "/a">>}

Range(s) == {s[i] : i \in DOMAIN s}

NoProperties == [k \in {} |-> TRUE]

\* Class, name and property map of an instance or snapshot.
Contents ==
    { [class_name |-> "Folder", name |-> "A", properties |-> NoProperties],
      [class_name |-> "Part", name |-> "B",
       properties |-> [k \in {"Anchored"} |-> [type |-> "Bool", value |-> TRUE]]] }

----------------------------------------------------------------------------
(* InstanceMetadata and InstanceSnapshot *)

\* Option<T>
None == [some |-> FALSE]

Some(value) == [some |-> TRUE, value |-> value]

\* A value computed once and used under a name.
With(value, Body(_)) == Body(value)

\* The middlewares modelled, in registry order.
MiddlewareIds == <<"directory", "project", "rbxm">>

\* InstanceContext::default().  The registry get_middlewares() is carried
\* with the context, so that the order it is walked in is an input.
DefaultContext ==
    [path_ignore_rules |-> {}, syncback_ignore_paths |-> {}, middlewares |-> MiddlewareIds]

InstanceMetadataNew ==
    [instigating_source |-> None, relevant_paths |-> << >>, middleware_id |-> None,
     middleware_context |-> None, fs_snapshot |-> None, context |-> DefaultContext]

Metadatas == {[InstanceMetadataNew EXCEPT !.relevant_paths = rp] : rp \in RelevantPathsChoices}

InstanceSnapshot(content, metadata, children) ==
    [class_name |-> content.class_name, name |-> content.name,
     properties |-> content.properties, metadata |-> metadata, children |-> children]

LeafSnapshots == {InstanceSnapshot(c, md, << >>) : c \in Contents, md \in Metadatas}

SeqsUpTo(S, n) == UNION {[1..k -> S] : k \in 0..n}

\* The snapshots of at most n nodes: a node and up to MaxSnapshotChildren leaves.
SnapshotsUpTo(n) ==
    IF n < 1 THEN {}
    ELSE LET k == IF n - 1 < MaxSnapshotChildren THEN n - 1 ELSE MaxSnapshotChildren
         IN {InstanceSnapshot(c, md, ch) :
                c \in Contents, md \in Metadatas, ch \in SeqsUpTo(LeafSnapshots, k)}

RECURSIVE SnapshotSize(_)
RECURSIVE SnapshotsSize(_)
SnapshotSize(snapshot) == 1 + SnapshotsSize(snapshot.children)
SnapshotsSize(children) ==
    IF children = << >> THEN 0
    ELSE SnapshotSize(Head(children)) + SnapshotsSize(Tail(children))

----------------------------------------------------------------------------
(* MultiMap<PathBuf, Ref> *)

\* A map from keys to non-empty sets of values; a key whose last value is
\* removed leaves the map.
MultiMapNew == << >>

MultiMapGet(mm, k) == IF k \in DOMAIN mm THEN mm[k] ELSE {}

MultiMapInsert(mm, k, v) ==
    IF k \in DOMAIN mm THEN [mm EXCEPT ![k] = @ \cup {v}] ELSE (k :> {v}) @@ mm

MultiMapRemove(mm, k, v) ==
    IF k \notin DOMAIN mm THEN mm
    ELSE IF mm[k] \ {v} = {} THEN [j \in DOMAIN mm \ {k} |-> mm[j]]
    ELSE [mm EXCEPT ![k] = @ \ {v}]

----------------------------------------------------------------------------
(* WeakDom *)

Instance(parent, snapshot) ==
    [parent |-> parent, children |-> << >>, class |-> snapshot.class_name,
     name |-> snapshot.name, properties |-> snapshot.properties]

WeakDomNew(snapshot) == (RootRef :> Instance(NoRef, snapshot))

WeakDomInsert(dom, parent_ref, referent, snapshot) ==
    (referent :> Instance(parent_ref, snapshot))
        @@ [dom EXCEPT ![parent_ref].children = Append(@, referent)]

RECURSIVE Descendants(_, _)
Descendants(dom, id) ==
    IF id \notin DOMAIN dom THEN {}
    ELSE {id} \cup UNION {Descendants(dom, c) : c \in Range(dom[id].children)}

WeakDomDestroy(dom, id) ==
    IF id \notin DOMAIN dom THEN dom
    ELSE LET gone == Descendants(dom, id)
             parent == dom[id].parent
         IN [r \in DOMAIN dom \ gone |->
                IF r = parent
                THEN [dom[r] EXCEPT !.children = SelectSeq(@, LAMBDA c : c # id)]
                ELSE dom[r]]

----------------------------------------------------------------------------
(* RojoTree: the three stores as one value *)

Tree == [inner |-> inner, next_ref |-> next_ref,
         metadata_map |-> metadata_map, path_to_ids |-> path_to_ids]

RECURSIVE InsertPaths(_, _, _)
InsertPaths(mm, paths, id) ==
    IF paths = << >> THEN mm
    ELSE InsertPaths(MultiMapInsert(mm, Head(paths), id), Tail(paths), id)

RECURSIVE RemovePaths(_, _, _)
RemovePaths(mm, paths, id) ==
    IF paths = << >> THEN mm
    ELSE RemovePaths(MultiMapRemove(mm, Head(paths), id), Tail(paths), id)

\* A slip in insert_metadata: the metadata is stored, the index is not touched.
insert_metadata_NoIndex(t, id, metadata) ==
    [t EXCEPT !.metadata_map = (id :> metadata) @@ @]

insert_metadata(t, id, metadata) ==
    [t EXCEPT !.path_to_ids = InsertPaths(@, metadata.relevant_paths, id),
              !.metadata_map = (id :> metadata) @@ @]

\* metadata_map.remove(&id).unwrap(): callers guard id \in DOMAIN t.metadata_map.
remove_metadata(t, id) ==
    [t EXCEPT !.metadata_map = [r \in DOMAIN @ \ {id} |-> @[r]],
              !.path_to_ids = RemovePaths(@, t.metadata_map[id].relevant_paths, id)]

RECURSIVE insert_instance(_, _, _)
RECURSIVE insert_children(_, _, _)
insert_instance(t, parent_ref, snapshot) ==
    LET referent == t.next_ref
        t1 == [t EXCEPT !.inner = WeakDomInsert(@, parent_ref, referent, snapshot),
                        !.next_ref = @ + 1]
        t2 == insert_metadata(t1, referent, snapshot.metadata)
    IN insert_children(t2, referent, snapshot.children)

insert_children(t, referent, children) ==
    IF children = << >> THEN t
    ELSE insert_children(insert_instance(t, referent, Head(children)), referent,
                         Tail(children))

RojoTreeNew(snapshot) ==
    LET t0 == [inner |-> WeakDomNew(snapshot), next_ref |-> RootRef + 1,
               metadata_map |-> [r \in {} |-> InstanceMetadataNew],
               path_to_ids |-> MultiMapNew]
        t1 == insert_metadata(t0, RootRef, snapshot.metadata)
    IN insert_children(t1, RootRef, snapshot.children)

\* A slip in update_props: properties.clear() is left out, so a property the
\* snapshot does not name survives.
update_props_NoClear(t, id, snapshot) ==
    [t EXCEPT !.inner[id].class = snapshot.class_name,
              !.inner[id].name = snapshot.name,
              !.inner[id].properties = snapshot.properties @@ @]

update_props(t, id, snapshot) ==
    [t EXCEPT !.inner[id].class = snapshot.class_name,
              !.inner[id].name = snapshot.name,
              !.inner[id].properties = snapshot.properties]

\* A slip in update_metadata: the old paths are not taken out of the index,
\* so a changed vector leaves stale index entries behind.
update_metadata_KeepOld(t, id, metadata) ==
    IF id \in DOMAIN t.metadata_map
    THEN LET existing == t.metadata_map[id]
             index == IF existing.relevant_paths # metadata.relevant_paths
                      THEN InsertPaths(t.path_to_ids, metadata.relevant_paths, id)
                      ELSE t.path_to_ids
         IN [t EXCEPT !.path_to_ids = index, !.metadata_map[id] = metadata]
    ELSE [t EXCEPT !.metadata_map = (id :> metadata) @@ @]

update_metadata(t, id, metadata) ==
    IF id \in DOMAIN t.metadata_map
    THEN \* Entry::Occupied
         LET existing == t.metadata_map[id]
             index == IF existing.relevant_paths # metadata.relevant_paths
                      THEN InsertPaths(RemovePaths(t.path_to_ids, existing.relevant_paths, id),
                                       metadata.relevant_paths, id)
                      ELSE t.path_to_ids
         IN [t EXCEPT !.path_to_ids = index, !.metadata_map[id] = metadata]
    ELSE \* Entry::Vacant
         [t EXCEPT !.metadata_map = (id :> metadata) @@ @]

get_ids_at_path(t, path) == MultiMapGet(t.path_to_ids, path)

SetTree(t) ==
    /\ inner' = t.inner
    /\ next_ref' = t.next_ref
    /\ metadata_map' = t.metadata_map
    /\ path_to_ids' = t.path_to_ids

\* The idle values of the variables of the parts a specification does not drive.
RemoveIdle == to_move = << >> /\ rm_id = NoRef

FixIdle == processing = << >> /\ ids = {} /\ inner0 = << >>

FnIdle == call = [fn |-> "none"] /\ ret = [fn |-> "none"]

VfsIdle == vfs = << >>

SyncIdle == new_dom = << >> /\ diff = << >> /\ syncable = NoRef /\ trace = << >>

TreeIdle ==
    /\ inner = << >>
    /\ next_ref = RootRef
    /\ metadata_map = << >>
    /\ path_to_ids = MultiMapNew

----------------------------------------------------------------------------
(* SpecTree: the operations of RojoTree *)

InitTree ==
    /\ \E snapshot \in SnapshotsUpTo(MaxRefs) :
          LET t == RojoTreeNew(snapshot)
          IN /\ inner = t.inner
             /\ next_ref = t.next_ref
             /\ metadata_map = t.metadata_map
             /\ path_to_ids = t.path_to_ids
    /\ pc = "idle"
    /\ last_op = [kind |-> "new"]
    /\ RemoveIdle
    /\ FixIdle
    /\ SyncIdle
    /\ FnIdle
    /\ VfsIdle

InsertInstance ==
    /\ pc = "idle"
    /\ \E parent_ref \in DOMAIN inner, snapshot \in SnapshotsUpTo(MaxRefs - next_ref + 1) :
          /\ SetTree(insert_instance(Tree, parent_ref, snapshot))
          /\ last_op' = [kind |-> "insert_instance", id |-> next_ref]
    /\ UNCHANGED <<pc, to_move, rm_id, notTree>>

UpdateProps ==
    /\ pc = "idle"
    /\ \E id \in DOMAIN inner, snapshot \in LeafSnapshots :
          /\ SetTree(update_props(Tree, id, snapshot))
          /\ last_op' = [kind |-> "update_props", id |-> id]
    /\ UNCHANGED <<pc, to_move, rm_id, notTree>>

\* update_props with a snapshot that may have children, the call written
\* down with the snapshot it was given and the property names the node had.
\* It is made once, on a tree as new() built it.
UpdatePropsWithChildren ==
    /\ pc = "idle"
    /\ last_op.kind = "new"
    /\ \E id \in DOMAIN inner, snapshot \in SnapshotsUpTo(MaxSnapshotChildren) :
          /\ SnapshotSize(snapshot) <= MaxSnapshotChildren
          /\ SetTree(update_props(Tree, id, snapshot))
          /\ last_op' = [kind |-> "update_props", id |-> id, snapshot |-> snapshot,
                         had |-> DOMAIN inner[id].properties]
    /\ UNCHANGED <<pc, to_move, rm_id, notTree>>

UpdateMetadata ==
    /\ pc = "idle"
    /\ \E id \in DOMAIN inner, metadata \in Metadatas :
          /\ SetTree(update_metadata(Tree, id, metadata))
          /\ last_op' = [kind |-> "update_metadata", id |-> id, metadata |-> metadata,
                         vacant |-> FALSE]
    /\ UNCHANGED <<pc, to_move, rm_id, notTree>>

\* update_metadata on an id that has no metadata entry: an id that was removed
\* or was never handed out.
UpdateMetadataVacant ==
    /\ pc = "idle"
    /\ \E id \in Refs \ DOMAIN metadata_map, metadata \in Metadatas :
          /\ SetTree(update_metadata(Tree, id, metadata))
          /\ last_op' = [kind |-> "update_metadata", id |-> id, metadata |-> metadata,
                         vacant |-> TRUE]
    /\ UNCHANGED <<pc, to_move, rm_id, notTree>>

\* remove(id), lines 153-154. WeakDom::destroy panics on the root, so the
\* call is made on the other live ids.
RemoveBegin_DestroyFirst(id) ==
    /\ pc' = "remove"
    /\ to_move' = <<id>>
    /\ rm_id' = id
    /\ last_op' = [kind |-> "remove", id |-> id, sub |-> Descendants(inner, id),
                   done |-> FALSE]
    /\ inner' = WeakDomDestroy(inner, id)
    /\ UNCHANGED <<next_ref, metadata_map, path_to_ids, notTree>>

RemoveBegin(id) ==
    /\ pc' = "remove"
    /\ to_move' = <<id>>
    /\ rm_id' = id
    /\ last_op' = [kind |-> "remove", id |-> id, sub |-> Descendants(inner, id),
                   done |-> FALSE]
    /\ UNCHANGED <<treeVars, notTree>>

Remove ==
    /\ pc = "idle"
    /\ \E id \in DOMAIN inner \ {RootRef} : RemoveBegin(id)

\* One turn of the while loop, lines 156-162.
RemoveStep ==
    /\ pc = "remove"
    /\ to_move # << >>
    /\ LET id == Head(to_move)
       IN /\ id \in DOMAIN metadata_map
          /\ SetTree(remove_metadata(Tree, id))
          /\ to_move' = Tail(to_move) \o
                (IF id \in DOMAIN inner THEN inner[id].children ELSE << >>)
    /\ UNCHANGED <<pc, rm_id, last_op, notTree>>

\* The queue is empty: self.inner.destroy(id), line 164.
RemoveDestroy ==
    /\ pc = "remove"
    /\ to_move = << >>
    /\ inner' = WeakDomDestroy(inner, rm_id)
    /\ pc' = "idle"
    /\ last_op' = [last_op EXCEPT !.done = TRUE]
    /\ UNCHANGED <<next_ref, metadata_map, path_to_ids, to_move, rm_id, notTree>>

NextTree ==
    \/ InsertInstance
    \/ UpdateProps
    \/ UpdateMetadata
    \/ Remove
    \/ RemoveStep
    \/ RemoveDestroy

SpecTree == InitTree /\ [][NextTree]_vars

\* The trees new() builds, changed by update_props alone.
NextProps == UpdatePropsWithChildren

SpecProps == InitTree /\ [][NextProps]_vars

NextTreeAny == NextTree \/ UpdateMetadataVacant

SpecTreeAny == InitTree /\ [][NextTreeAny]_vars

----------------------------------------------------------------------------
(* Properties of the RojoTree operations *)

Live == DOMAIN inner

RelevantPathsOf(id) == Range(metadata_map[id].relevant_paths)

\* The path index never names an id that is not live.
IndexRefsLive == \A p \in DOMAIN path_to_ids : path_to_ids[p] \subseteq Live

\* C1: between calls (after new and any sequence of insert_instance,
\* update_props, update_metadata and remove on live ids) the three stores
\* agree: the ids with a metadata entry are exactly the live ids, and
\* path_to_ids holds (p, id) exactly when id is live and p is one of the
\* relevant_paths of id's metadata.
C1_StoresAgree ==
    pc = "idle" =>
        /\ DOMAIN metadata_map = Live
        /\ \A p \in Paths, id \in Refs :
              id \in get_ids_at_path(Tree, p)
                  <=> (id \in Live /\ id \in DOMAIN metadata_map /\ p \in RelevantPathsOf(id))

\* Two live nodes share a path in the index after a subtree was removed.
C1_Witness ==
    /\ pc = "idle"
    /\ last_op.kind = "remove"
    /\ \E p \in Paths : Cardinality(get_ids_at_path(Tree, p)) >= 2

\* C2: every update_metadata(id, md) step leaves id in get_ids_at_path(p)
\* exactly for the paths p of md.relevant_paths and leaves the index entries
\* of every other id as they were, whether or not id had a metadata entry.
C2_UpdateMetadataIndexesExactly ==
    [][last_op'.kind = "update_metadata" =>
          \A p \in Paths :
              /\ (last_op'.id \in get_ids_at_path(Tree', p))
                    <=> (p \in Range(last_op'.metadata.relevant_paths))
              /\ get_ids_at_path(Tree', p) \ {last_op'.id}
                    = get_ids_at_path(Tree, p) \ {last_op'.id}]_vars

\* What a remove(id) call may do to the nodes outside the subtree of id, and
\* what its last step leaves of the subtree.
RemoveStepProperty ==
    (pc = "remove" \/ pc' = "remove") =>
        /\ \A id \in Live \ Descendants(inner, rm_id') :
              /\ id \in DOMAIN inner'
              /\ id \in DOMAIN metadata_map' /\ metadata_map'[id] = metadata_map[id]
              /\ \A p \in Paths :
                    id \in get_ids_at_path(Tree', p) <=> id \in get_ids_at_path(Tree, p)
        /\ pc' = "idle" =>
              \A d \in Descendants(inner, rm_id) :
                  /\ d \notin DOMAIN inner'
                  /\ d \notin DOMAIN metadata_map'
                  /\ \A p \in Paths : d \notin get_ids_at_path(Tree', p)

\* The subtree is stripped of metadata and index entries when destroy runs.
StrippedBeforeDestroy ==
    (pc = "remove" /\ to_move = << >>) =>
        \A d \in Descendants(inner, rm_id) :
            /\ d \notin DOMAIN metadata_map
            /\ \A p \in Paths : d \notin get_ids_at_path(Tree, p)

\* C3: remove(id) strips the metadata entry and the index entries of id and
\* of every descendant before the subtree is destroyed, so in no state of the
\* call does path_to_ids name a node that is not live; after the call no
\* node of the subtree is live, has metadata or is in the index, and every
\* node outside the subtree keeps its metadata and its index entries.
C3_RemoveStripsBeforeDestroy ==
    /\ [](IndexRefsLive /\ StrippedBeforeDestroy)
    /\ [][RemoveStepProperty]_vars

\* A subtree of two nodes was removed while another node stayed indexed.
C3_Witness ==
    /\ pc = "idle"
    /\ last_op.kind = "remove"
    /\ Cardinality(last_op.sub) >= 2
    /\ last_op.sub \cap Live = {}
    /\ \E p \in Paths : get_ids_at_path(Tree, p) # {}

----------------------------------------------------------------------------
(* SpecFix: fix_unique_id_collisions *)

HexChars == <<"0", "1", "2", "3", "4", "5", "6", "7",
              "8", "9", "a", "b", "c", "d", "e", "f">>

\* format!("{:0width$x}", n): the lower-case hex digits of n, zero-padded.
RECURSIVE LowerHex(_, _)
LowerHex(n, width) ==
    IF width = 0 THEN << >>
    ELSE Append(LowerHex(n \div 16, width - 1), HexChars[(n % 16) + 1])

\* UniqueId's Display: random, time and index as 16, 8 and 8 hex digits.
UniqueIdToString(id) ==
    LowerHex(id.random, 16) \o LowerHex(id.time, 8) \o LowerHex(id.index, 8)

UniqueIds == { [random |-> 1, time |-> 16, index |-> 2],
               [random |-> 17, time |-> 0, index |-> 2] }

VariantUniqueId(id) == [type |-> "UniqueId", value |-> id]

VariantString(str) == [type |-> "String", value |-> str]

U1 == CHOOSE id \in UniqueIds : id.random = 1

U2 == CHOOSE id \in UniqueIds : id.random = 17

\* The property maps of the instances fix_unique_id_collisions is run on: no
\* UniqueId, one UniqueId, the same UniqueId under two keys, and a String
\* that spells a UniqueId.
FixProperties ==
    { NoProperties,
      [k \in {"UniqueId"} |-> VariantUniqueId(U1)],
      [k \in {"UniqueId"} |-> VariantUniqueId(U2)],
      [k \in {"UniqueId", "HistoryId"} |-> VariantUniqueId(U1)],
      [k \in {"UniqueId", "Tag"} |->
          IF k = "Tag" THEN VariantString(UniqueIdToString(U2)) ELSE VariantUniqueId(U2)],
      [k \in {"Tag"} |-> VariantString(UniqueIdToString(U1))] }

FixContents == {[class_name |-> "Part", name |-> "P", properties |-> props] :
                   props \in FixProperties}

FixLeafSnapshots == {InstanceSnapshot(c, InstanceMetadataNew, << >>) : c \in FixContents}

FixSnapshotsUpTo(n) ==
    LET k == IF n - 1 < MaxSnapshotChildren THEN n - 1 ELSE MaxSnapshotChildren
    IN {InstanceSnapshot(c, InstanceMetadataNew, ch) :
            c \in FixContents, ch \in SeqsUpTo(FixLeafSnapshots, k)}

\* The orders in which a HashMap may hand out the keys of S.
KeyOrders(S) == {order \in [1..Cardinality(S) -> S] : Range(order) = S}

\* Vec::pop takes the first element instead of the last.
VecPop_Front(v) == [item |-> Head(v), rest |-> Tail(v)]

\* Vec::pop: the last element and what is left.
VecPop(v) == [item |-> v[Len(v)], rest |-> SubSeq(v, 1, Len(v) - 1)]

\* The test without its negation: a value counts as conflicting when it is new.
is_conflicting_unique_id_Negated(variant, seen) ==
    /\ variant.type = "UniqueId"
    /\ UniqueIdToString(variant.value) \notin seen

\* !ids.insert(id.to_string()) for a UniqueId, false for any other variant.
is_conflicting_unique_id(variant, seen) ==
    /\ variant.type = "UniqueId"
    /\ UniqueIdToString(variant.value) \in seen

\* The for loop over the keys of one instance, in the order given.
RECURSIVE FixKeys(_, _, _)
FixKeys(properties, seen, keys) ==
    IF keys = << >> THEN [properties |-> properties, ids |-> seen]
    ELSE LET key == Head(keys)
             variant == properties[key]
             conflicting == is_conflicting_unique_id(variant, seen)
             seen2 == IF variant.type = "UniqueId"
                      THEN seen \cup {UniqueIdToString(variant.value)}
                      ELSE seen
             properties2 == IF conflicting
                            THEN [k \in DOMAIN properties \ {key} |-> properties[k]]
                            ELSE properties
         IN FixKeys(properties2, seen2, Tail(keys))

InitFix ==
    /\ \E snapshot \in FixSnapshotsUpTo(MaxRefs) :
          LET t == RojoTreeNew(snapshot)
          IN /\ inner = t.inner
             /\ next_ref = t.next_ref
             /\ metadata_map = t.metadata_map
             /\ path_to_ids = t.path_to_ids
    /\ pc = "idle"
    /\ last_op = [kind |-> "new"]
    /\ RemoveIdle
    /\ FixIdle
    /\ SyncIdle
    /\ FnIdle
    /\ VfsIdle

\* insert_instance of a leaf, to grow trees deeper than the constructor's.
FixInsertInstance ==
    /\ pc = "idle"
    /\ next_ref <= MaxRefs
    /\ \E parent_ref \in DOMAIN inner, snapshot \in FixLeafSnapshots :
          SetTree(insert_instance(Tree, parent_ref, snapshot))
    /\ last_op' = [kind |-> "insert_instance", id |-> next_ref]
    /\ UNCHANGED <<pc, removeVars, fixVars, fnVars, vfs, syncVars>>

\* fix_unique_id_collisions, lines 79-82.
FixBegin ==
    /\ pc = "idle"
    /\ pc' = "fix"
    /\ processing' = <<RootRef>>
    /\ ids' = {}
    /\ inner0' = inner
    /\ last_op' = [kind |-> "fix_unique_id_collisions"]
    /\ UNCHANGED <<inner, notFix>>

\* One turn of the while loop, lines 84-104.
FixStep ==
    /\ pc = "fix"
    /\ processing # << >>
    /\ LET popped == VecPop(processing)
           inst_ref == popped.item
       IN \E keys \in KeyOrders(DOMAIN inner[inst_ref].properties) :
             LET fixed == FixKeys(inner[inst_ref].properties, ids, keys)
             IN /\ inner' = [inner EXCEPT ![inst_ref].properties = fixed.properties]
                /\ ids' = fixed.ids
                /\ processing' = popped.rest \o inner[inst_ref].children
    /\ UNCHANGED <<pc, last_op, inner0, notFix>>

\* The Vec is empty: the function returns.
FixEnd ==
    /\ pc = "fix"
    /\ processing = << >>
    /\ pc' = "fixed"
    /\ UNCHANGED <<inner, last_op, fixVars, notFix>>

NextFix ==
    \/ FixInsertInstance
    \/ FixBegin
    \/ FixStep
    \/ FixEnd

SpecFix == InitFix /\ [][NextFix]_vars

----------------------------------------------------------------------------
(* Properties of fix_unique_id_collisions *)

\* The (instance, property) pairs of dom that hold the UniqueId id.
Holders(dom, id) ==
    {pair \in (DOMAIN dom) \X {"UniqueId", "HistoryId", "Tag"} :
        /\ pair[2] \in DOMAIN dom[pair[1]].properties
        /\ dom[pair[1]].properties[pair[2]] = VariantUniqueId(id)}

HolderInstances(dom, id) == {pair[1] : pair \in Holders(dom, id)}

\* C4: after fix_unique_id_collisions no UniqueId value is held by more than
\* one (instance, property) pair of the tree, and every UniqueId value that
\* was held before the call is held by exactly one pair.
C4_NoDuplicateUniqueIds ==
    pc = "fixed" =>
        \A id \in UniqueIds :
            /\ Cardinality(Holders(inner, id)) <= 1
            /\ Holders(inner0, id) # {} => Cardinality(Holders(inner, id)) = 1

\* A value held by three pairs before the call is held by one after it.
C4_Witness ==
    /\ pc = "fixed"
    /\ \E id \in UniqueIds :
          /\ Cardinality(Holders(inner0, id)) >= 3
          /\ Cardinality(Holders(inner, id)) = 1

RECURSIVE ConcatAll(_)
ConcatAll(seqs) == IF seqs = << >> THEN << >> ELSE Head(seqs) \o ConcatAll(Tail(seqs))

Reverse(s) == [i \in 1..Len(s) |-> s[Len(s) + 1 - i]]

\* Preorder with child order preserved: a node, then its children's subtrees
\* from the first child to the last.
RECURSIVE Preorder(_, _)
Preorder(dom, id) ==
    <<id>> \o ConcatAll([i \in 1..Len(dom[id].children) |->
                            Preorder(dom, dom[id].children[i])])

\* A node, then its children's subtrees from the last child to the first.
RECURSIVE ReversePreorder(_, _)
ReversePreorder(dom, id) ==
    <<id>> \o ConcatAll([i \in 1..Len(dom[id].children) |->
                            ReversePreorder(dom, Reverse(dom[id].children)[i])])

PositionIn(order, id) == CHOOSE i \in 1..Len(order) : order[i] = id

\* The instance among S that comes first in order.
FirstIn(order, S) ==
    CHOOSE r \in S : \A q \in S : PositionIn(order, r) <= PositionIn(order, q)

\* C5 as stated: of the instances holding one UniqueId value, the one that
\* comes first in preorder with child order preserved keeps it, and every
\* later one loses it.
C5_KeptOnFirstInPreorder ==
    pc = "fixed" =>
        \A id \in UniqueIds :
            HolderInstances(inner0, id) # {} =>
                HolderInstances(inner, id)
                    = {FirstIn(Preorder(inner0, RootRef), HolderInstances(inner0, id))}

\* C5 amended: the value stays on the instance that comes first in the
\* order of the stack walk, which is a node before its subtree and the
\* subtree of a later sibling before that of an earlier sibling; every
\* other instance loses it. That instance is a function of the tree alone,
\* so it is the same on every run; on it exactly one property keeps the
\* value (which one is up to the map's key order when it has several).
C5_KeptOnFirstInReversePreorder ==
    pc = "fixed" =>
        \A id \in UniqueIds :
            HolderInstances(inner0, id) # {} =>
                /\ HolderInstances(inner, id)
                      = {FirstIn(ReversePreorder(inner0, RootRef), HolderInstances(inner0, id))}
                /\ Cardinality(Holders(inner, id)) = 1

\* Two siblings held the same value and the later sibling kept it.
C5_Witness ==
    /\ pc = "fixed"
    /\ \E id \in UniqueIds, a \in DOMAIN inner0, b \in DOMAIN inner0 :
          /\ a < b
          /\ inner0[a].parent = inner0[b].parent
          /\ {a, b} \subseteq HolderInstances(inner0, id)
          /\ HolderInstances(inner, id) = {b}

----------------------------------------------------------------------------
(* File names: syncback/file_names.rs *)

\* A name is a sequence of chars, a char is its Unicode code point.
Space == 32

Dot == 46

\* char::is_control: the general category Cc, U+0000..U+001F and U+007F..U+009F.
is_control(char) == char \in 0..31 \/ char \in 127..159

ends_with(str, char) == Len(str) > 0 /\ str[Len(str)] = char

\* "CON" "PRN" "AUX" "NUL" "COM1" "COM2" "COM3" "COM4" "COM5" "COM6" "COM7"
\* "COM8" "COM9" "LPT1" "LPT2" "LPT3" "LPT4" "LPT5" "LPT6" "LPT7" "LPT8" "LPT9"
INVALID_WINDOWS_NAMES ==
    << <<67, 79, 78>>, <<80, 82, 78>>, <<65, 85, 88>>, <<78, 85, 76>>,
       <<67, 79, 77, 49>>, <<67, 79, 77, 50>>, <<67, 79, 77, 51>>, <<67, 79, 77, 52>>,
       <<67, 79, 77, 53>>, <<67, 79, 77, 54>>, <<67, 79, 77, 55>>, <<67, 79, 77, 56>>,
       <<67, 79, 77, 57>>, <<76, 80, 84, 49>>, <<76, 80, 84, 50>>, <<76, 80, 84, 51>>,
       <<76, 80, 84, 52>>, <<76, 80, 84, 53>>, <<76, 80, 84, 54>>, <<76, 80, 84, 55>>,
       <<76, 80, 84, 56>>, <<76, 80, 84, 57>> >>

\* The list without its last char, the backslash.
FORBIDDEN_CHARS_NoBackslash == <<60, 62, 58, 34, 47, 124, 63, 42>>

\* < > : " / | ? * \
FORBIDDEN_CHARS == <<60, 62, 58, 34, 47, 124, 63, 42, 92>>

is_valid_file_name(str) ==
    IF ends_with(str, Space) \/ ends_with(str, Dot) THEN FALSE
    ELSE IF \E i \in DOMAIN str :
                is_control(str[i]) \/ str[i] \in Range(FORBIDDEN_CHARS) THEN FALSE
    ELSE IF \E i \in DOMAIN INVALID_WINDOWS_NAMES :
                str = INVALID_WINDOWS_NAMES[i] THEN FALSE
    ELSE TRUE

Middlewares ==
    {"Csv", "JsonModel", "Json", "ServerScript", "ClientScript", "ModuleScript",
     "Project", "Rbxm", "Rbxmx", "Toml", "Text", "Ignore",
     "Dir", "CsvDir", "ServerScriptDir", "ClientScriptDir", "ModuleScriptDir"}

DirMiddlewares == {"Dir", "CsvDir", "ServerScriptDir", "ClientScriptDir", "ModuleScriptDir"}

\* The extension of a middleware; unimplemented!() for Ignore and the
\* directory middlewares.
extension_for_middleware(middleware) ==
    CASE
         middleware = "Csv" -> [panic |-> FALSE, value |-> <<99, 115, 118>>]  \* csv
      [] middleware = "JsonModel" -> [panic |-> FALSE, value |-> <<109, 111, 100, 101, 108, 46, 106, 115, 111, 110>>]  \* model.json
      [] middleware = "Json" -> [panic |-> FALSE, value |-> <<106, 115, 111, 110>>]  \* json
      [] middleware = "ServerScript" -> [panic |-> FALSE, value |-> <<115, 101, 114, 118, 101, 114, 46, 108, 117, 97, 117>>]  \* server.luau
      [] middleware = "ClientScript" -> [panic |-> FALSE, value |-> <<99, 108, 105, 101, 110, 116, 46, 108, 117, 97, 117>>]  \* client.luau
      [] middleware = "ModuleScript" -> [panic |-> FALSE, value |-> <<108, 117, 97, 117>>]  \* luau
      [] middleware = "Project" -> [panic |-> FALSE, value |-> <<112, 114, 111, 106, 101, 99, 116, 46, 106, 115, 111, 110>>]  \* project.json
      [] middleware = "Rbxm" -> [panic |-> FALSE, value |-> <<114, 98, 120, 109>>]  \* rbxm
      [] middleware = "Rbxmx" -> [panic |-> FALSE, value |-> <<114, 98, 120, 109, 120>>]  \* rbxmx
      [] middleware = "Toml" -> [panic |-> FALSE, value |-> <<116, 111, 109, 108>>]  \* toml
      [] middleware = "Text" -> [panic |-> FALSE, value |-> <<116, 120, 116>>]  \* txt
      [] OTHER -> [panic |-> TRUE]

\* name_for_inst with no old instance, lines 27-44: "ok" with the name,
\* "err" (anyhow::bail!) or "panic" (unimplemented!).
name_for_new_inst(middleware, name) ==
    IF middleware \in DirMiddlewares
    THEN [outcome |-> "ok", value |-> name]
    ELSE LET extension == extension_for_middleware(middleware)
         IN IF extension.panic THEN [outcome |-> "panic"]
            ELSE IF is_valid_file_name(name)
            THEN [outcome |-> "ok", value |-> name \o <<Dot>> \o extension.value]
            ELSE [outcome |-> "err"]

\* DirectoryMiddleware::syncback_new_path: Ok(parent_path.join(name)).
dir_syncback_new_path(parent_path, name) ==
    [outcome |-> "ok", parent_path |-> parent_path, joined |-> name]

\* An OsStr is a sequence of units; a unit that is no Unicode scalar value
\* (a lone surrogate) makes it invalid Unicode.
LoneSurrogate == 55296

\* OsStr::to_str: the string, or None when it is not valid Unicode.
to_str(os_str) ==
    IF \E i \in DOMAIN os_str : os_str[i] \in 55296..57343 THEN None ELSE Some(os_str)

\* A path is the sequence of its segments: <<>> is the root, "." the current
\* directory and ".." the parent.  Path::components drops every "." but a
\* leading one.
CurDir == <<Dot>>

ParentDir == <<Dot, Dot>>

components(path) ==
    SelectSeq([i \in DOMAIN path |-> [segment |-> path[i], first |-> i = 1]],
              LAMBDA c : c.segment # CurDir \/ c.first)

\* Path::file_name: the last component when it is a normal one.
file_name_of(path) ==
    With(components(path), LAMBDA cs :
    IF cs = << >> THEN None
    ELSE IF cs[Len(cs)].segment \in {<< >>, CurDir, ParentDir} THEN None
    ELSE Some(cs[Len(cs)].segment))

\* InstigatingSource::path: the path of the file, or of the project file
\* the node comes from.
InstigatingSourcePathOf(source) == source.path

\* With an old instance the directory middlewares take the name of the new
\* instance all the same.
name_for_inst_NewNameForDir(middleware, new_name, old_inst) ==
    IF old_inst.some /\ middleware \notin DirMiddlewares
    THEN IF old_inst.value.instigating_source.some
         THEN With(file_name_of(InstigatingSourcePathOf(
                                 old_inst.value.instigating_source.value)), LAMBDA name :
              IF name.some /\ to_str(name.value).some
              THEN [outcome |-> "ok", value |-> to_str(name.value).value]
              ELSE [outcome |-> "err"])
         ELSE [outcome |-> "err"]
    ELSE name_for_new_inst(middleware, new_name)

\* name_for_inst, lines 11-45: with an old instance, the file name of its
\* instigating source.
name_for_inst(middleware, new_name, old_inst) ==
    IF old_inst.some
    THEN IF old_inst.value.instigating_source.some
         THEN With(file_name_of(InstigatingSourcePathOf(
                                 old_inst.value.instigating_source.value)), LAMBDA name :
              IF name.some /\ to_str(name.value).some
              THEN [outcome |-> "ok", value |-> to_str(name.value).value]
              ELSE [outcome |-> "err"])
         ELSE [outcome |-> "err"]
    ELSE name_for_new_inst(middleware, new_name)

\* Longest name drawn from the whole alphabet.
MaxNameLen == 2

\* Controls (U+0000, U+001F, U+007F, U+009F), the first char past them
\* (U+00A0), space, dot, the forbidden chars and three plain chars (1 C a).
NameChars == {0, 31, 127, 159, 160, Space, Dot, 49, 67, 97} \cup Range(FORBIDDEN_CHARS)

\* Names around the reserved list and the rules, and the names the
\* specification lists as accepted.
\* "con" "Con" "CON " "CON." "COM0" "COM10" "LPT0" "xCON" "CONx" "NUL.txt" "a/b" "a\b" "a " "a." "foo.luau" "MyFolder" "init.meta.json" "foo<bar" "foo\tbar"
OtherNames ==
    { <<99, 111, 110>>,
      <<67, 111, 110>>,
      <<67, 79, 78, 32>>,
      <<67, 79, 78, 46>>,
      <<67, 79, 77, 48>>,
      <<67, 79, 77, 49, 48>>,
      <<76, 80, 84, 48>>,
      <<120, 67, 79, 78>>,
      <<67, 79, 78, 120>>,
      <<78, 85, 76, 46, 116, 120, 116>>,
      <<97, 47, 98>>,
      <<97, 92, 98>>,
      <<97, 32>>,
      <<97, 46>>,
      <<102, 111, 111, 46, 108, 117, 97, 117>>,
      <<77, 121, 70, 111, 108, 100, 101, 114>>,
      <<105, 110, 105, 116, 46, 109, 101, 116, 97, 46, 106, 115, 111, 110>>,
      <<102, 111, 111, 60, 98, 97, 114>>,
      <<102, 111, 111, 9, 98, 97, 114>> }

Names == SeqsUpTo(NameChars, MaxNameLen) \cup Range(INVALID_WINDOWS_NAMES) \cup OtherNames

\* The parent paths syncback_new_path is given: "/" and "/a".
ParentPaths == {<<47>>, <<47, 97>>}

InitNames ==
    /\ call \in {[fn |-> "names", name |-> name] : name \in Names}
    /\ ret = [fn |-> "none"]
    /\ pc = "idle"
    /\ last_op = [kind |-> "none"]
    /\ TreeIdle
    /\ RemoveIdle
    /\ FixIdle
    /\ SyncIdle
    /\ VfsIdle

IsValidFileName ==
    /\ pc = "idle"
    /\ ret' = [fn |-> "is_valid_file_name", value |-> is_valid_file_name(call.name)]
    /\ pc' = "returned"
    /\ UNCHANGED <<call, notFn>>

\* name_for_inst for a fresh node: old_inst is None.
NameForInst ==
    /\ pc = "idle"
    /\ \E middleware \in Middlewares :
          ret' = [fn |-> "name_for_inst", middleware |-> middleware,
                  result |-> name_for_new_inst(middleware, call.name)]
    /\ pc' = "returned"
    /\ UNCHANGED <<call, notFn>>

DirSyncbackNewPath ==
    /\ pc = "idle"
    /\ \E parent_path \in ParentPaths :
          ret' = [fn |-> "syncback_new_path", middleware |-> "Dir",
                  result |-> dir_syncback_new_path(parent_path, call.name)]
    /\ pc' = "returned"
    /\ UNCHANGED <<call, notFn>>

NextNames ==
    \/ IsValidFileName
    \/ NameForInst
    \/ DirSyncbackNewPath

SpecNames == InitNames /\ [][NextNames]_vars

----------------------------------------------------------------------------
(* The specification of name_for_inst with an old instance *)

\* "foo.luau" "init.meta.json" "MyFolder" "a/b" "CON" and the empty name
NewNames ==
    {<<102, 111, 111, 46, 108, 117, 97, 117>>,
     <<105, 110, 105, 116, 46, 109, 101, 116, 97, 46, 106, 115, 111, 110>>,
     <<77, 121, 70, 111, 108, 100, 101, 114>>, <<97, 47, 98>>, <<67, 79, 78>>, << >>}

\* The segments of the old paths: "src" "foo.luau" "CON" "a b." "." ".." and
\* a name that is not valid Unicode.
OldSegments ==
    {<<115, 114, 99>>, <<102, 111, 111, 46, 108, 117, 97, 117>>, <<67, 79, 78>>,
     <<97, 32, 98, 46>>, CurDir, ParentDir, <<97, LoneSurrogate>>}

\* The old instances: without a source, or sourced from a path or from a
\* node of a project file, with paths of up to two segments.
OldInsts ==
    {Some([instigating_source |-> None])}
    \cup {Some([instigating_source |-> Some([kind |-> kind, path |-> path])]) :
             kind \in {"Path", "ProjectNode"}, path \in SeqsUpTo(OldSegments, 2)}

InitOldName ==
    /\ call \in {[fn |-> "name_for_inst", name |-> name, old_inst |-> old_inst] :
                    name \in NewNames, old_inst \in OldInsts}
    /\ ret = [fn |-> "none"]
    /\ pc = "idle"
    /\ last_op = [kind |-> "none"]
    /\ TreeIdle
    /\ RemoveIdle
    /\ FixIdle
    /\ SyncIdle
    /\ VfsIdle

\* name_for_inst for a node that has an old instance.
NameForOldInst ==
    /\ pc = "idle"
    /\ \E middleware \in Middlewares :
          ret' = [fn |-> "name_for_inst", middleware |-> middleware,
                  result |-> name_for_inst(middleware, call.name, call.old_inst)]
    /\ pc' = "returned"
    /\ UNCHANGED <<call, notFn>>

NextOldName == NameForOldInst

SpecOldName == InitOldName /\ [][NextOldName]_vars

----------------------------------------------------------------------------
(* Properties of the file-name rules *)

\* The chars the rules forbid: < > : " / \ | ? *
RuleForbiddenChars == {60, 62, 58, 34, 47, 92, 124, 63, 42}

\* CON PRN AUX NUL, COM1..COM9, LPT1..LPT9
RuleReservedNames ==
    {<<67, 79, 78>>, <<80, 82, 78>>, <<65, 85, 88>>, <<78, 85, 76>>}
        \cup {<<67, 79, 77, 48 + d>> : d \in 1..9}
        \cup {<<76, 80, 84, 48 + d>> : d \in 1..9}

\* "foo.luau", "MyFolder" and "init.meta.json"
RuleAcceptedNames ==
    { <<102, 111, 111, 46, 108, 117, 97, 117>>,
      <<77, 121, 70, 111, 108, 100, 101, 114>>,
      <<105, 110, 105, 116, 46, 109, 101, 116, 97, 46, 106, 115, 111, 110>> }

RuleInvalid(name) ==
    \/ Len(name) > 0 /\ name[Len(name)] \in {Space, Dot}
    \/ \E i \in DOMAIN name :
          name[i] \in 0..31 \/ name[i] \in 127..159 \/ name[i] \in RuleForbiddenChars
    \/ name \in RuleReservedNames

\* C8: is_valid_file_name(name) is false exactly when name ends in a space
\* or a dot, or holds a control char or one of < > : " / \ | ? *, or is one
\* of the 22 reserved names (compared case-sensitively); it is true for
\* every other name, "foo.luau", "MyFolder" and "init.meta.json" among them.
C8_IsValidFileName ==
    ret.fn = "is_valid_file_name" =>
        /\ ret.value = ~RuleInvalid(call.name)
        /\ call.name \in RuleAcceptedNames => ret.value = TRUE
        /\ Cardinality(RuleReservedNames) = 22

\* A reserved name was refused.
C8_Witness ==
    /\ ret.fn = "is_valid_file_name"
    /\ call.name = <<76, 80, 84, 57>>
    /\ ret.value = FALSE

\* A name no file may carry: reserved, or holding a forbidden char.
IllegalName(name) ==
    \/ name \in RuleReservedNames
    \/ \E i \in DOMAIN name : name[i] \in RuleForbiddenChars

\* C9: for a fresh node whose name is reserved or holds a forbidden char,
\* computing the file name (name_for_inst) or the path
\* (syncback_new_path) fails for every middleware, the directory
\* middlewares included, and no name that is returned is illegal.
C9_FreshIllegalNameFails ==
    /\ (ret.fn \in {"name_for_inst", "syncback_new_path"} /\ IllegalName(call.name))
            => ret.result.outcome # "ok"
    /\ (ret.fn = "name_for_inst" /\ ret.result.outcome = "ok")
            => ~RuleInvalid(ret.result.value)

----------------------------------------------------------------------------
(* The rbxm middleware: snapshot_middleware/rbxm.rs *)

\* anyhow::Result<T>
Ok(value) == [ok |-> TRUE, value |-> value]

Err(error) == [ok |-> FALSE, error |-> error]

\* A path is the sequence of its components: <<"a", "b.rbxm">> is /a/b.rbxm.
PathJoin(path, name) == Append(path, name)

PathFileName(path) == path[Len(path)]

\* Top-level instances a model file holds.
MaxTopLevel == 2

\* The instances a model file is made of: class, name, properties, children.
ModelInstances ==
    {InstanceSnapshot(c, InstanceMetadataNew, ch) :
        c \in Contents, ch \in SeqsUpTo({InstanceSnapshot(c2, InstanceMetadataNew, << >>) :
                                            c2 \in {cc \in Contents : cc.class_name = "Folder"}}, 1)}

\* What a file may hold: bytes that are no model, or the encoding of a
\* model with the given top-level instances.
GarbageBytes == [format |-> "garbage"]

RbxmBytes(top_level) == [format |-> "rbxm", top_level |-> top_level]

VfsFile(contents) == [kind |-> "file", contents |-> contents]

VfsDir == [kind |-> "dir"]

\* vfs.read(path): the contents of a file, an io error for anything else.
VfsRead(fs, path) ==
    IF path \in DOMAIN fs /\ fs[path].kind = "file" THEN Ok(fs[path].contents)
    ELSE Err("io")

\* rbx_binary::from_reader: a WeakDom whose root holds the top-level
\* instances of the file, or a decode error.
RbxmFromReader(bytes) ==
    IF bytes.format = "rbxm"
    THEN Ok(RojoTreeNew(InstanceSnapshot(
                [class_name |-> "DataModel", name |-> "DataModel",
                 properties |-> NoProperties],
                InstanceMetadataNew, bytes.top_level)).inner)
    ELSE Err("decode")

\* InstanceSnapshot::from_tree: the subtree of id as a snapshot.
RECURSIVE InstanceSnapshotFromTree(_, _)
InstanceSnapshotFromTree(dom, id) ==
    [class_name |-> dom[id].class, name |-> dom[id].name,
     properties |-> dom[id].properties, metadata |-> InstanceMetadataNew,
     children |-> [i \in 1..Len(dom[id].children) |->
                      InstanceSnapshotFromTree(dom, dom[id].children[i])]]

InstigatingSourcePath(path) == [kind |-> "Path", path |-> path]

\* The length test admits any model file that is not empty.
snapshot_rbxm_AtLeastOne(context, fs, path, name) ==
    With(VfsRead(fs, path), LAMBDA read :
    IF ~read.ok THEN Err("io")
    ELSE With(RbxmFromReader(read.value), LAMBDA decoded :
    IF ~decoded.ok THEN Err("Malformed rbxm file")
    ELSE With(decoded.value, LAMBDA temp_tree :
         With(temp_tree[RootRef].children, LAMBDA children :
    IF Len(children) >= 1
    THEN Ok(Some([InstanceSnapshotFromTree(temp_tree, children[1])
                     EXCEPT !.name = name,
                            !.metadata =
                                [InstanceMetadataNew
                                    EXCEPT !.instigating_source =
                                               Some(InstigatingSourcePath(path)),
                                           !.relevant_paths = <<path>>,
                                           !.context = context]]))
    ELSE Err("Rojo currently only supports model files with one top-level instance.")))))

snapshot_rbxm(context, fs, path, name) ==
    With(VfsRead(fs, path), LAMBDA read :
    IF ~read.ok THEN Err("io")
    ELSE With(RbxmFromReader(read.value), LAMBDA decoded :
    IF ~decoded.ok THEN Err("Malformed rbxm file")
    ELSE With(decoded.value, LAMBDA temp_tree :
         With(temp_tree[RootRef].children, LAMBDA children :
    IF Len(children) = 1
    THEN Ok(Some([InstanceSnapshotFromTree(temp_tree, children[1])
                     EXCEPT !.name = name,
                            !.metadata =
                                [InstanceMetadataNew
                                    EXCEPT !.instigating_source =
                                               Some(InstigatingSourcePath(path)),
                                           !.relevant_paths = <<path>>,
                                           !.context = context]]))
    ELSE Err("Rojo currently only supports model files with one top-level instance.")))))

RbxmPaths == {<<"foo.rbxm">>, <<"a", "b.rbxm">>}

RbxmNames == {"foo", "b"}

RbxmFiles ==
    {VfsFile(GarbageBytes), VfsDir}
        \cup {VfsFile(RbxmBytes(top_level)) : top_level \in SeqsUpTo(ModelInstances, MaxTopLevel)}

InitRbxm ==
    /\ \E path \in RbxmPaths, name \in RbxmNames :
          /\ call = [fn |-> "snapshot_rbxm", path |-> path, name |-> name]
          /\ vfs \in {<< >>} \cup {(path :> file) : file \in RbxmFiles}
    /\ ret = [fn |-> "none"]
    /\ pc = "idle"
    /\ last_op = [kind |-> "none"]
    /\ TreeIdle
    /\ RemoveIdle
    /\ FixIdle
    /\ SyncIdle

SnapshotRbxm ==
    /\ pc = "idle"
    /\ call.fn = "snapshot_rbxm"
    /\ ret' = [fn |-> "snapshot_rbxm",
               result |-> snapshot_rbxm(DefaultContext, vfs, call.path, call.name)]
    /\ pc' = "returned"
    /\ UNCHANGED <<call, notFn>>

NextRbxm == SnapshotRbxm

SpecRbxm == InitRbxm /\ [][NextRbxm]_vars

----------------------------------------------------------------------------
(* Properties of snapshot_rbxm *)

\* The file at the path snapshot_rbxm is given decodes to a model.
HoldsModel(fs, path) ==
    /\ path \in DOMAIN fs
    /\ fs[path].kind = "file"
    /\ fs[path].contents.format = "rbxm"

\* C10: snapshot_rbxm returns a snapshot exactly when the decoded model file
\* has one top-level instance, and an error with no snapshot when it has
\* none or several (or when there is no model to decode); the snapshot has
\* the name the caller gave, the class of that top-level instance and the
\* file path as its only relevant path.
C10_SnapshotRbxmOneTopLevel ==
    ret.fn = "snapshot_rbxm" =>
        LET top_level == vfs[call.path].contents.top_level
        IN /\ ret.result.ok
                <=> (HoldsModel(vfs, call.path) /\ Len(top_level) = 1)
           /\ ret.result.ok =>
                /\ ret.result.value.some
                /\ ret.result.value.value.name = call.name
                /\ ret.result.value.value.class_name = top_level[1].class_name
                /\ ret.result.value.value.metadata.relevant_paths = <<call.path>>

\* A model file with one top-level Part, which has a child, was snapshotted
\* under a name that is not the instance's own.
C10_Witness ==
    /\ ret.fn = "snapshot_rbxm"
    /\ ret.result.ok
    /\ ret.result.value.value.class_name = "Part"
    /\ Len(ret.result.value.value.children) = 1
    /\ ret.result.value.value.name = "b"

----------------------------------------------------------------------------
(* The forward snapshot of a directory: snapshot_middleware/dir.rs *)

\* The init files the middlewares register: DirectoryMiddleware registers
\* none (dir.rs:50-52).
init_names(middleware_id) ==
    IF middleware_id = "rbxm" THEN <<"init.rbxm">>
    ELSE IF middleware_id = "project" THEN <<"init.project.json">>
    ELSE << >>

\* get_middleware_inits(): init file name -> middleware id.
get_middleware_inits ==
    <<[name |-> "init.project.json", middleware_id |-> "project"],
      [name |-> "init.rbxm", middleware_id |-> "rbxm"]>>

\* The file names of the model that match *.rbxm, with their stems.
RbxmStem == [n \in {"m.rbxm", "init.rbxm", "foo.rbxm", "b.rbxm"} |->
                CASE n = "m.rbxm" -> "m"
                  [] n = "init.rbxm" -> "init"
                  [] n = "foo.rbxm" -> "foo"
                  [] n = "b.rbxm" -> "b"]

\* The contents of an init.meta.json: a class override and properties.
MetaBytes(class_name, properties) ==
    [format |-> "meta.json", class_name |-> class_name, properties |-> properties]

\* MetadataFile::apply_all: the meta file overrides class and properties.
MetadataFileApplyAll(meta, snapshot) ==
    [snapshot EXCEPT
        !.class_name = IF meta.class_name.some THEN meta.class_name.value ELSE @,
        !.properties = meta.properties @@ @]

\* Every path the model's file systems may hold, in the order read_dir
\* lists them.
VfsUniverse ==
    << <<"src">>, <<"src", "init.meta.json">>, <<"src", "A">>,
       <<"src", "A", "init.meta.json">>, <<"src", "A", "B">>,
       <<"src", "m.rbxm">>, <<"src", "C">>, <<"src", "C", "init.meta.json">>,
       <<"src", "A", "C">>, <<"src", "A", "C", "init.meta.json">>,
       <<"src", "A", "B", "init.meta.json">>, <<"src", "A", "B", "C">>,
       <<"src", "A", "B", "C", "init.meta.json">>,
       <<"src", "init.rbxm">>, <<"src", "A", "init.rbxm">>,
       <<"src", "init.project.json">>,
       <<"foo">>, <<"foo", "Child">> >>

PathParent(path) == SubSeq(path, 1, Len(path) - 1)

\* vfs.metadata(path) finds something.
VfsExists(fs, path) == path \in DOMAIN fs

VfsReadDir(fs, path) ==
    SelectSeq(VfsUniverse, LAMBDA p : p \in DOMAIN fs /\ Len(p) > 1 /\ PathParent(p) = path)

\* dir_meta: the init.meta.json of the directory, if there is one.
dir_meta(fs, path) ==
    LET meta_path == PathJoin(path, "init.meta.json")
    IN IF VfsExists(fs, meta_path)
       THEN IF VfsRead(fs, meta_path).ok /\ fs[meta_path].contents.format = "meta.json"
            THEN Ok(Some(fs[meta_path].contents))
            ELSE Err("meta")
       ELSE Ok(None)

\* The project middleware's snapshot of a project file: the class, the
\* properties and the children the file declares.
snapshot_project(context, fs, path) ==
    With(VfsRead(fs, path), LAMBDA read :
    IF ~read.ok THEN Err("io")
    ELSE IF read.value.format # "project.json" THEN Err("Malformed project file")
    ELSE Ok(Some([class_name |-> read.value.class_name, name |-> "project",
                  properties |-> read.value.properties,
                  children |-> read.value.children,
                  metadata |-> [InstanceMetadataNew
                                   EXCEPT !.instigating_source =
                                              Some(InstigatingSourcePath(path)),
                                          !.relevant_paths = <<path>>,
                                          !.context = context]])))

\* middleware.snapshot(context, vfs, &init_path), line 517, with the id of
\* the middleware on the snapshot.
InitMiddlewareSnapshot(middleware_id, context, fs, init_path) ==
    With(IF middleware_id = "project" THEN snapshot_project(context, fs, init_path)
         ELSE snapshot_rbxm(context, fs, init_path, RbxmStem[PathFileName(init_path)]),
         LAMBDA r :
    IF ~r.ok \/ ~r.value.some THEN r
    ELSE Ok(Some([r.value.value EXCEPT !.metadata.middleware_id = Some(middleware_id)])))

\* What the loops of lines 507-528 have found so far.
NoInitFound == [snapshot_parent |-> None, skip_default_children |-> FALSE,
                snapshot_children |-> << >>]

\* The loops of lines 507-528: every middleware of the registry is asked in
\* turn for the init file it registers; the break of line 523 leaves the
\* loop over the names of one middleware only, so a later middleware with
\* an init snapshot replaces snapshot_parent, while skip_default_children
\* and the children of a project stay as an earlier one set them.
RECURSIVE InitSnapshotOf(_, _, _, _, _)
InitSnapshotOf(context, fs, path, middlewares, found) ==
    IF middlewares = << >> THEN Ok(found)
    ELSE With(SelectSeq(init_names(Head(middlewares)),
                        LAMBDA n : VfsExists(fs, PathJoin(path, n))), LAMBDA present :
         IF present = << >>
         THEN InitSnapshotOf(context, fs, path, Tail(middlewares), found)
         ELSE With(InitMiddlewareSnapshot(Head(middlewares), context, fs,
                                          PathJoin(path, Head(present))), LAMBDA r :
              IF ~r.ok THEN r
              ELSE InitSnapshotOf(context, fs, path, Tail(middlewares),
                      IF ~r.value.some THEN found
                      ELSE [snapshot_parent |-> r.value,
                            skip_default_children |->
                                found.skip_default_children
                                    \/ Head(middlewares) = "project",
                            snapshot_children |->
                                IF Head(middlewares) = "project"
                                THEN r.value.value.children
                                ELSE found.snapshot_children])))

IsInitName(name) == \E i \in DOMAIN get_middleware_inits : get_middleware_inits[i].name = name

RECURSIVE snapshot_from_vfs(_, _, _)
RECURSIVE SnapshotEntries(_, _, _, _)
RECURSIVE snapshot_dir_no_meta(_, _, _)
RECURSIVE DirectoryMiddlewareSnapshot(_, _, _)

\* The closure of lines 488-493; a rule of the model names the path it
\* rejects.
passes_filter_rules(context, child) == child \notin context.path_ignore_rules

\* The loop over vfs.read_dir(path), lines 531-548.
SnapshotEntries(context, fs, entries, snapshot_children) ==
    IF entries = << >> THEN Ok(snapshot_children)
    ELSE With(IF ~passes_filter_rules(context, Head(entries)) THEN Ok(None)
              ELSE IF IsInitName(PathFileName(Head(entries))) THEN Ok(None)
              ELSE snapshot_from_vfs(context, fs, Head(entries)), LAMBDA child :
         IF ~child.ok THEN child
         ELSE SnapshotEntries(context, fs, Tail(entries),
                 IF child.value.some
                 THEN Append(snapshot_children, child.value.value)
                 ELSE snapshot_children))

snapshot_dir_no_meta(context, fs, path) ==
    With(InitSnapshotOf(context, fs, path, context.middlewares, NoInitFound),
         LAMBDA found :
    IF ~found.ok THEN found
    ELSE
    With(Ok(found.value.snapshot_parent), LAMBDA init :
    With(IF found.value.skip_default_children THEN Ok(found.value.snapshot_children)
         ELSE SnapshotEntries(context, fs, VfsReadDir(fs, path),
                              found.value.snapshot_children), LAMBDA children :
    With([InstanceMetadataNew EXCEPT
             !.instigating_source = Some(InstigatingSourcePath(path)),
             !.relevant_paths =
                 <<path, PathJoin(path, "init.meta.json")>>
                     \o ConcatAll([i \in DOMAIN context.middlewares |->
                            [k \in DOMAIN init_names(context.middlewares[i]) |->
                                PathJoin(path, init_names(context.middlewares[i])[k])]]),
             !.context = context], LAMBDA metadata :
    IF ~children.ok THEN children
    ELSE IF ~init.value.some
    THEN Ok(Some([class_name |-> "Folder", name |-> PathFileName(path),
                  properties |-> NoProperties, metadata |-> metadata,
                  children |-> children.value]))
    ELSE With(init.value.value, LAMBDA init_snapshot :
         Ok(Some([init_snapshot EXCEPT
                     !.name = PathFileName(path),
                     !.children = children.value,
                     !.metadata =
                         [metadata EXCEPT
                             !.middleware_context =
                                 IF init_snapshot.metadata.middleware_id.some
                                 THEN Some([init_middleware |->
                                                init_snapshot.metadata.middleware_id,
                                            init_context |->
                                                init_snapshot.metadata.middleware_context,
                                            init_path |->
                                                Some(init_snapshot.metadata
                                                       .instigating_source.value.path)])
                                 ELSE None]])))))))

\* The snapshot keeps the middleware_id snapshot_dir_no_meta left it with.
DirectoryMiddlewareSnapshot_NoId(context, fs, path) ==
    With(snapshot_dir_no_meta(context, fs, path), LAMBDA r :
    With(dir_meta(fs, path), LAMBDA meta :
    IF ~r.ok THEN r
    ELSE IF ~meta.ok THEN meta
    ELSE Ok(Some(IF meta.value.some
                 THEN MetadataFileApplyAll(meta.value.value, r.value.value)
                 ELSE r.value.value))))

\* DirectoryMiddleware::snapshot, lines 54-72.
DirectoryMiddlewareSnapshot(context, fs, path) ==
    With(snapshot_dir_no_meta(context, fs, path), LAMBDA r :
    With(dir_meta(fs, path), LAMBDA meta :
    IF ~r.ok THEN r
    ELSE IF ~meta.ok THEN meta
    ELSE With(IF meta.value.some
              THEN MetadataFileApplyAll(meta.value.value, r.value.value)
              ELSE r.value.value, LAMBDA snapshot :
         Ok(Some([snapshot EXCEPT !.metadata.middleware_id = Some("directory")])))))

\* The middleware whose globs claim the path snapshots it.
snapshot_from_vfs(context, fs, path) ==
    IF ~VfsExists(fs, path) THEN Ok(None)
    ELSE IF fs[path].kind = "dir" THEN DirectoryMiddlewareSnapshot(context, fs, path)
    ELSE IF PathFileName(path) \in DOMAIN RbxmStem
    THEN With(snapshot_rbxm(context, fs, path, RbxmStem[PathFileName(path)]), LAMBDA r :
         IF ~r.ok THEN r
         ELSE Ok(Some([r.value.value EXCEPT !.metadata.middleware_id = Some("rbxm")])))
    ELSE Ok(None)

----------------------------------------------------------------------------
(* FsSnapshot: the files and directories a node stands for on disk *)

FsSnapshotNew == [files |-> << >>, dirs |-> {}]

with_dir(fs_snapshot, path) == [fs_snapshot EXCEPT !.dirs = @ \cup {path}]

with_added_file(fs_snapshot, path, bytes) ==
    [fs_snapshot EXCEPT !.files = (path :> bytes) @@ @]

with_file_contents_opt(fs_snapshot, path, bytes) ==
    IF bytes.some THEN with_added_file(fs_snapshot, path, bytes.value) ELSE fs_snapshot

merge_with(fs_snapshot, other) ==
    [files |-> other.files @@ fs_snapshot.files, dirs |-> fs_snapshot.dirs \cup other.dirs]

FsSnapshotIsEmpty(fs_snapshot) == fs_snapshot.files = << >> /\ fs_snapshot.dirs = {}

FsSnapshotPaths(fs_snapshot) == DOMAIN fs_snapshot.files \cup fs_snapshot.dirs

IsPrefix(p, q) == Len(p) <= Len(q) /\ SubSeq(q, 1, Len(p)) = p

Prefixes(path) == {SubSeq(path, 1, n) : n \in 1..Len(path)}

\* FsSnapshot::reconcile: delete what only the old snapshot lists, create the
\* directories only the new one lists, write the files that are new or whose
\* contents differ from the old snapshot's.  The result is the file system
\* afterwards with the paths deleted, created and written.
FsSnapshotReconcile(fs, old, new) ==
    LET o == IF old.some THEN old.value ELSE FsSnapshotNew
        n == IF new.some THEN new.value ELSE FsSnapshotNew
        deleted == FsSnapshotPaths(o) \ FsSnapshotPaths(n)
        created == n.dirs \ o.dirs
        written == {path \in DOMAIN n.files :
                       path \notin DOMAIN o.files \/ o.files[path] # n.files[path]}
        kept == {path \in DOMAIN fs : ~\E d \in deleted : IsPrefix(d, path)}
        made == UNION {Prefixes(d) : d \in created} \ kept
        fs1 == [path \in kept \cup made |-> IF path \in kept THEN fs[path] ELSE VfsDir]
        fs2 == [path \in written |-> VfsFile(n.files[path])] @@ fs1
    IN [vfs |-> fs2, deleted |-> deleted, created |-> created, written |-> written]

----------------------------------------------------------------------------
(* DeepDiff: which old instance corresponds to which new one *)

SeqToSet(seq) == {seq[i] : i \in DOMAIN seq}

\* Old children paired with new ones of the same class and name, in order.
RECURSIVE PairChildren(_, _, _, _)
PairChildren(old_dom, old_children, new_dom_, new_children) ==
    IF old_children = << >> THEN << >>
    ELSE LET o == Head(old_children)
             same == SelectSeq(new_children,
                               LAMBDA c : /\ new_dom_[c].class = old_dom[o].class
                                          /\ new_dom_[c].name = old_dom[o].name)
         IN IF same = << >>
            THEN PairChildren(old_dom, Tail(old_children), new_dom_, new_children)
            ELSE <<<<o, Head(same)>>>>
                    \o PairChildren(old_dom, Tail(old_children), new_dom_,
                                    SelectSeq(new_children, LAMBDA c : c # Head(same)))

RECURSIVE DeepDiffMatch(_, _, _, _)
RECURSIVE DeepDiffMatchAll(_, _, _)
DeepDiffMatch(old_dom, old_id, new_dom_, new_id) ==
    (old_id :> new_id)
        @@ DeepDiffMatchAll(old_dom, new_dom_,
                            PairChildren(old_dom, old_dom[old_id].children,
                                         new_dom_, new_dom_[new_id].children))

DeepDiffMatchAll(old_dom, new_dom_, pairs) ==
    IF pairs = << >> THEN << >>
    ELSE DeepDiffMatch(old_dom, Head(pairs)[1], new_dom_, Head(pairs)[2])
            @@ DeepDiffMatchAll(old_dom, new_dom_, Tail(pairs))

\* DeepDiff::new; the property filters of the model are empty.
DeepDiffNew(old_dom, old_id, new_dom_, new_id) ==
    DeepDiffMatch(old_dom, old_id, new_dom_, new_id)

get_matching_new_ref(d, old_id) ==
    IF old_id \in DOMAIN d THEN Some(d[old_id]) ELSE None

MatchedNew(d) == {d[o] : o \in DOMAIN d}

\* A matched pair is changed when the properties differ or a child below it
\* was added, removed or changed.
RECURSIVE DeepDiffChanged(_, _, _, _)
DeepDiffChanged(d, old_dom, new_dom_, old_id) ==
    LET new_id == d[old_id]
    IN \/ old_dom[old_id].properties # new_dom_[new_id].properties
       \/ \E c \in SeqToSet(old_dom[old_id].children) : c \notin DOMAIN d
       \/ \E c \in SeqToSet(new_dom_[new_id].children) : c \notin MatchedNew(d)
       \/ \E c \in SeqToSet(old_dom[old_id].children) :
              c \in DOMAIN d /\ DeepDiffChanged(d, old_dom, new_dom_, c)

\* DeepDiff::get_children
DeepDiffGetChildren(d, old_dom, new_dom_, old_id) ==
    LET old_children == old_dom[old_id].children
        new_children == new_dom_[d[old_id]].children
    IN [added |-> SelectSeq(new_children, LAMBDA c : c \notin MatchedNew(d)),
        removed |-> SelectSeq(old_children, LAMBDA c : c \notin DOMAIN d),
        changed |-> SelectSeq(old_children,
                       LAMBDA c : c \in DOMAIN d /\ DeepDiffChanged(d, old_dom, new_dom_, c)),
        unchanged |-> SelectSeq(old_children,
                       LAMBDA c : c \in DOMAIN d /\ ~DeepDiffChanged(d, old_dom, new_dom_, c))]

----------------------------------------------------------------------------
(* The directory middleware's syncback: snapshot_middleware/dir.rs *)

\* DirectoryMiddleware and the rbxm middleware both write their descendants
\* themselves (dir.rs:73-75); the project middleware, which takes part in
\* syncback as the init middleware of a directory, does not.
syncback_serializes_children(middleware_id) == middleware_id # "project"

\* The class the project middleware writes: the root of a place.
ProjectClass == "DataModel"

\* A class no middleware claims.
UnclaimedClass == "Unclaimed"

\* The best middleware for a new instance: a Folder and a DataModel become
\* directories, any other class a model file; for an instance no
\* middleware claims there is none.
get_best_syncback_middleware(dom, inst, consider_descendants, previous) ==
    IF inst.class \in {"Folder", ProjectClass} THEN Some("directory")
    ELSE IF inst.class = UnclaimedClass THEN None
    ELSE Some("rbxm")

\* The children for which a middleware is selected (dir.rs:436), in order.
Claimed(dom, children) ==
    SelectSeq(children,
              LAMBDA c : get_best_syncback_middleware(dom, dom[c], TRUE, None).some)

\* The same choice among the middlewares that leave the children to the
\* directory: the project middleware for a DataModel, none for the rest.
get_best_syncback_middleware_must_not_serialize_children(dom, inst, consider_descendants, previous) ==
    IF inst.class = ProjectClass /\ ~syncback_serializes_children("project")
    THEN Some("project") ELSE None

\* reconcile_meta_file: the init.meta.json that records what the instance
\* overrides of its base class, or nothing when it overrides nothing.
reconcile_meta_file(fs, path, new_inst, base_class) ==
    IF new_inst.class = base_class /\ new_inst.properties = NoProperties THEN None
    ELSE Some(MetaBytes(IF new_inst.class = base_class THEN None ELSE Some(new_inst.class),
                        new_inst.properties))

\* InstanceMetadata::snapshot_source_path
snapshot_source_path(metadata) ==
    IF metadata.instigating_source.some /\ metadata.instigating_source.value.kind = "Path"
    THEN Some(metadata.instigating_source.value.path)
    ELSE None

SyncbackNodeNew(old_ref, new_ref, path, instance_snapshot) ==
    [old_ref |-> old_ref, new_ref |-> new_ref, parent_ref |-> None, path |-> path,
     instance_snapshot |-> instance_snapshot, use_snapshot_children |-> FALSE,
     get_children |-> None]

with_children(node, get_children) == [node EXCEPT !.get_children = Some(get_children)]

\* The project middleware as an init middleware: it writes the instance to
\* the project file at the path it is given and hands back a get_children
\* closure, which gives no child of its own.
ProjectBytes(inst) ==
    [format |-> "project.json", class_name |-> inst.class, properties |-> inst.properties,
     children |-> << >>]

ProjectSyncback(t, sync) ==
    With(sync.new_dom[sync.new_ref], LAMBDA new_inst :
    Ok(with_children(
        SyncbackNodeNew(IF sync.old.some THEN Some(sync.old.value.id) ELSE None,
            sync.new_ref, sync.path,
            [class_name |-> new_inst.class, name |-> new_inst.name,
             properties |-> new_inst.properties,
             metadata |-> [sync.metadata EXCEPT
                              !.middleware_id = Some("project"),
                              !.instigating_source = Some(InstigatingSourcePath(sync.path)),
                              !.relevant_paths = <<sync.path>>,
                              !.fs_snapshot =
                                  Some(with_added_file(FsSnapshotNew, sync.path,
                                                       ProjectBytes(new_inst)))],
             children |-> << >>]),
        [kind |-> "project", init_middleware |-> None, init_children |-> None])))

ProjectGetChildren(closure, t, sync) == Ok([children |-> << >>, removed |-> {}])

\* get_middleware(init_middleware): its syncback, its get_children closure
\* and its syncback_new_path(path, "init", inst).
InitMiddlewareSyncback(middleware_id, t, sync) ==
    IF middleware_id = "project" THEN ProjectSyncback(t, sync) ELSE Err("no syncback")

InitGetChildren(closure, t, sync) ==
    IF closure.kind = "project" THEN ProjectGetChildren(closure, t, sync)
    ELSE Err("no closure")

InitSyncbackNewPath(middleware_id, path) == PathJoin(path, "init.project.json")

\* Lines 217-229 and 367-379: the DirectoryMiddlewareContext of a directory
\* whose init file the init node stands for.
DirContextOf(init_node) ==
    Some([init_middleware |-> init_node.instance_snapshot.metadata.middleware_id,
          init_context |-> init_node.instance_snapshot.metadata.middleware_context,
          init_path |-> snapshot_source_path(init_node.instance_snapshot.metadata)])

\* Lines 148, 233-235 and 346, 386-388: the directory itself and what the
\* init node writes.
DirFsSnapshotWithInit(sync, init_node) ==
    IF init_node.instance_snapshot.metadata.fs_snapshot.some
    THEN merge_with(with_dir(FsSnapshotNew, sync.path),
                    init_node.instance_snapshot.metadata.fs_snapshot.value)
    ELSE with_dir(FsSnapshotNew, sync.path)

\* Lines 141-146 and 339-344: the metadata both syncbacks start from.
DirSyncbackMetadata(sync) ==
    [sync.metadata EXCEPT
        !.middleware_id = Some("directory"),
        !.instigating_source = Some(InstigatingSourcePath(sync.path)),
        !.relevant_paths = [i \in DOMAIN get_middleware_inits |->
                               PathJoin(sync.path, get_middleware_inits[i].name)]]

\* The directory is left out of its own FsSnapshot.
DirFsSnapshot_NoDir(sync, new_inst) ==
    with_file_contents_opt(FsSnapshotNew, PathJoin(sync.path, "init.meta.json"),
        reconcile_meta_file(sync.vfs, PathJoin(sync.path, "init.meta.json"),
                            new_inst, "Folder"))

\* Lines 148, 237-246 and 346, 390-399: the directory itself and, with no
\* init middleware, the init.meta.json that reconcile_meta_file gives.
DirFsSnapshot(sync, new_inst) ==
    with_file_contents_opt(with_dir(FsSnapshotNew, sync.path),
        PathJoin(sync.path, "init.meta.json"),
        reconcile_meta_file(sync.vfs, PathJoin(sync.path, "init.meta.json"),
                            new_inst, "Folder"))

\* downcast_ref::<DirectoryMiddlewareContext>() is Some, lines 129-136: the
\* context is the one a directory records.
IsDirectoryMiddlewareContext(context) ==
    DOMAIN context = {"init_middleware", "init_context", "init_path"}

\* A context is taken for a directory's whatever its type, and one that
\* records an init middleware without a path is given the path the
\* middleware would choose.
syncback_update_Lenient(t, sync) ==
    With(sync.old.value.middleware_context, LAMBDA dir_context :
    With(sync.new_dom[sync.new_ref], LAMBDA new_inst :
    Ok(with_children(
        SyncbackNodeNew(Some(sync.old.value.id), sync.new_ref, sync.path,
            [class_name |-> new_inst.class, name |-> new_inst.name,
             properties |-> new_inst.properties,
             metadata |-> [DirSyncbackMetadata(sync) EXCEPT
                              !.middleware_context = None,
                              !.fs_snapshot = Some(DirFsSnapshot(sync, new_inst))],
             children |-> << >>]),
        [kind |-> "update", init_middleware |-> None, init_children |-> None]))))

syncback_update(t, sync) ==
    LET old == sync.old.value
        dir_context == old.middleware_context
        new_inst == sync.new_dom[sync.new_ref]
        old_init_middleware == IF dir_context.some
                               THEN dir_context.value.init_middleware ELSE None
        old_init_path == IF dir_context.some THEN dir_context.value.init_path ELSE None
        init_middleware ==
            get_best_syncback_middleware_must_not_serialize_children(
                sync.new_dom, new_inst, FALSE, old_init_middleware)
    IN IF old.id \notin DOMAIN t.inner
       THEN Err("missing ref")
       ELSE IF dir_context.some /\ ~IsDirectoryMiddlewareContext(dir_context.value)
       THEN Err("middleware context was of wrong type")
       ELSE IF sync.new_ref \notin DOMAIN sync.new_dom
       THEN Err("missing ref")
       ELSE IF old_init_middleware.some /\ ~old_init_path.some
       THEN Err("Missing path for existing middleware")
       ELSE IF init_middleware.some
       THEN \* lines 205-235: the init node; its closure is kept for later
            With(InitMiddlewareSyncback(init_middleware.value, t,
                    [sync EXCEPT
                        !.path = IF old_init_middleware.some THEN old_init_path.value
                                 ELSE InitSyncbackNewPath(init_middleware.value, sync.path),
                        !.old = IF old_init_middleware.some
                                THEN Some([id |-> old.id,
                                           middleware_context |->
                                               dir_context.value.init_context])
                                ELSE None,
                        !.metadata = [InstanceMetadataNew EXCEPT
                                         !.context = sync.metadata.context]]),
                 LAMBDA init_node :
            IF ~init_node.ok THEN Err("failed to create instance on filesystem")
            ELSE Ok(with_children(
                    SyncbackNodeNew(Some(old.id), sync.new_ref, sync.path,
                        [class_name |-> new_inst.class, name |-> new_inst.name,
                         properties |-> new_inst.properties,
                         metadata |-> [DirSyncbackMetadata(sync) EXCEPT
                                          !.middleware_context =
                                              DirContextOf(init_node.value),
                                          !.fs_snapshot =
                                              Some(DirFsSnapshotWithInit(
                                                       sync, init_node.value))],
                         children |-> << >>]),
                    [kind |-> "update", init_middleware |-> init_middleware,
                     init_children |->
                         IF init_node.value.get_children.some
                         THEN Some([computed |-> FALSE,
                                    closure |-> init_node.value.get_children.value])
                         ELSE None])))
       ELSE Ok(with_children(
                SyncbackNodeNew(Some(old.id), sync.new_ref, sync.path,
                    [class_name |-> new_inst.class, name |-> new_inst.name,
                     properties |-> new_inst.properties,
                     metadata |-> [DirSyncbackMetadata(sync) EXCEPT
                                      !.fs_snapshot = Some(DirFsSnapshot(sync, new_inst))],
                     children |-> << >>]),
                [kind |-> "update", init_middleware |-> init_middleware,
                 init_children |-> None]))

\* Lines 381-384: get_children(&init_sync)?, called inside syncback_new.
InitChildrenNow(closure, t, sync) ==
    With(InitGetChildren(closure, t, sync), LAMBDA r :
    IF ~r.ok THEN r ELSE Ok(Some([computed |-> TRUE, result |-> r.value])))

syncback_new(t, sync) ==
    LET new_inst == sync.new_dom[sync.new_ref]
        init_middleware ==
            get_best_syncback_middleware_must_not_serialize_children(
                sync.new_dom, new_inst, FALSE, None)
    IN IF sync.new_ref \notin DOMAIN sync.new_dom THEN Err("missing ref")
       ELSE IF init_middleware.some
       THEN \* lines 352-388: the init node; its closure is called here and now
            With([sync EXCEPT
                     !.path = InitSyncbackNewPath(init_middleware.value, sync.path),
                     !.metadata = [InstanceMetadataNew EXCEPT
                                      !.context = sync.metadata.context]],
                 LAMBDA init_sync :
            With(InitMiddlewareSyncback(init_middleware.value, t, init_sync),
                 LAMBDA init_node :
            IF ~init_node.ok THEN Err("failed to create instance on filesystem")
            ELSE
            With(IF init_node.value.get_children.some
                 THEN InitChildrenNow(init_node.value.get_children.value, t, init_sync)
                 ELSE Ok(None),
                 LAMBDA init_children :
            IF ~init_children.ok THEN init_children
            ELSE Ok(with_children(
                    SyncbackNodeNew(None, sync.new_ref, sync.path,
                        [class_name |-> new_inst.class, name |-> new_inst.name,
                         properties |-> new_inst.properties,
                         metadata |-> [DirSyncbackMetadata(sync) EXCEPT
                                          !.middleware_context =
                                              DirContextOf(init_node.value),
                                          !.fs_snapshot =
                                              Some(DirFsSnapshotWithInit(
                                                       sync, init_node.value))],
                         children |-> << >>]),
                    [kind |-> "new", init_middleware |-> init_middleware,
                     init_children |-> init_children.value])))))
       ELSE Ok(with_children(
                SyncbackNodeNew(None, sync.new_ref, sync.path,
                    [class_name |-> new_inst.class, name |-> new_inst.name,
                     properties |-> new_inst.properties,
                     metadata |-> [DirSyncbackMetadata(sync) EXCEPT
                                      !.fs_snapshot = Some(DirFsSnapshot(sync, new_inst))],
                     children |-> << >>]),
                [kind |-> "new", init_middleware |-> init_middleware,
                 init_children |-> None]))

\* DirectoryMiddleware::syncback, lines 104-110.
DirectoryMiddlewareSyncback(t, sync) ==
    IF sync.old.some THEN syncback_update(t, sync) ELSE syncback_new(t, sync)

\* get_middleware(id).syncback(ctx): only the directory middleware's
\* syncback takes part; the trees of the model add and change Folders only.
MiddlewareSyncback(middleware_id, t, sync) ==
    IF middleware_id = "directory" THEN DirectoryMiddlewareSyncback(t, sync)
    ELSE IF middleware_id = "project" THEN ProjectSyncback(t, sync)
    ELSE Err("no syncback")

\* The results of a sequence of fallible calls: the values, or the first error.
RECURSIVE CollectOk(_)
CollectOk(results) ==
    IF results = << >> THEN Ok(<< >>)
    ELSE IF ~Head(results).ok THEN Head(results)
    ELSE With(CollectOk(Tail(results)), LAMBDA rest :
         IF rest.ok THEN Ok(<<Head(results).value>> \o rest.value) ELSE rest)

\* Lines 423-452: a child of a new directory, written by the middleware
\* chosen for it.  SyncbackPlanner::from_new(..).syncback(..) does the same
\* for a child added to an old directory.
SyncbackNewChild(t, sync, child_ref) ==
    With(sync.new_dom[child_ref], LAMBDA child_inst :
    MiddlewareSyncback(
        get_best_syncback_middleware(sync.new_dom, child_inst, TRUE, None).value, t,
        [sync EXCEPT !.path = PathJoin(sync.path, child_inst.name),
                     !.old = None,
                     !.new_ref = child_ref,
                     !.metadata = [InstanceMetadataNew EXCEPT
                                      !.context = sync.metadata.context]]))

\* SyncbackPlanner::from_update(..) is Some: there is a plan for an old child
\* that has a middleware.
SyncbackPlannerFromUpdateIsSome(t, old_child_ref) ==
    t.metadata_map[old_child_ref].middleware_id.some

\* SyncbackPlanner::from_update(..).syncback(..): the child's own middleware
\* at the child's own path.
SyncbackPlannerFromUpdate(t, sync, old_child_ref, new_child_ref) ==
    With(t.metadata_map[old_child_ref], LAMBDA old_metadata :
    MiddlewareSyncback(old_metadata.middleware_id.value, t,
        [sync EXCEPT !.path = snapshot_source_path(old_metadata).value,
                     !.old = Some([id |-> old_child_ref,
                                   middleware_context |-> old_metadata.middleware_context]),
                     !.new_ref = new_child_ref,
                     !.metadata = old_metadata]))

\* The closure gives, with the added children, the children of those.
SyncbackUpdateChildren_Deep(closure, t, sync) ==
    With(DeepDiffGetChildren(sync.diff, t.inner, sync.new_dom, sync.old.value.id),
         LAMBDA delta :
    With(CollectOk(
            [i \in DOMAIN delta.added |-> SyncbackNewChild(t, sync, delta.added[i])]
            \o ConcatAll(
                [i \in DOMAIN delta.added |->
                    [j \in DOMAIN sync.new_dom[delta.added[i]].children |->
                        SyncbackNewChild(t,
                            [sync EXCEPT !.path = PathJoin(sync.path,
                                                     sync.new_dom[delta.added[i]].name)],
                            sync.new_dom[delta.added[i]].children[j])]])),
         LAMBDA sync_children :
    IF ~sync_children.ok THEN sync_children
    ELSE Ok([children |-> sync_children.value, removed |-> SeqToSet(delta.removed)])))

\* Every child of the new instance is taken for an added one.
SyncbackUpdateChildren_AllAdded(closure, t, sync) ==
    IF closure.init_middleware = Some("project") THEN Ok([children |-> << >>, removed |-> {}])
    ELSE
    With(DeepDiffGetChildren(sync.diff, t.inner, sync.new_dom, sync.old.value.id),
         LAMBDA delta :
    With(SelectSeq(delta.changed,
                   LAMBDA c : /\ snapshot_source_path(t.metadata_map[c]).some
                              /\ SyncbackPlannerFromUpdateIsSome(t, c)),
         LAMBDA sourced :
    With(sync.new_dom[sync.new_ref].children, LAMBDA added :
    With(CollectOk(
            [i \in DOMAIN added |-> SyncbackNewChild(t, sync, added[i])]
            \o [i \in DOMAIN sourced |->
                   SyncbackPlannerFromUpdate(t, sync, sourced[i], sync.diff[sourced[i]])]),
         LAMBDA sync_children :
    IF ~sync_children.ok THEN sync_children
    ELSE Ok([children |-> sync_children.value, removed |-> SeqToSet(delta.removed)])))))

\* Lines 273-277 and 424-427: what the init middleware's closure gives,
\* called now (update) or taken as it was computed (new).
InitChildrenOf(closure, t, sync) ==
    IF ~closure.init_children.some THEN Ok([children |-> << >>, removed |-> {}])
    ELSE IF closure.init_children.value.computed
    THEN Ok(closure.init_children.value.result)
    ELSE InitGetChildren(closure.init_children.value.closure, t, sync)

\* The children and removals of the init middleware's closure, with more
\* children and removals put after them.
Seeded(init, sync_children, removed) ==
    IF ~init.ok THEN init
    ELSE IF ~sync_children.ok THEN sync_children
    ELSE Ok([children |-> init.value.children \o sync_children.value,
             removed |-> init.value.removed \cup removed])

\* The diff is consulted whatever the init middleware is.
SyncbackUpdateChildren_ProjectDiffed(closure, t, sync) ==
    With(DeepDiffGetChildren(sync.diff, t.inner, sync.new_dom, sync.old.value.id),
         LAMBDA delta :
    With(SelectSeq(delta.changed,
                   LAMBDA c : /\ snapshot_source_path(t.metadata_map[c]).some
                              /\ SyncbackPlannerFromUpdateIsSome(t, c)),
         LAMBDA sourced :
    Seeded(InitChildrenOf(closure, t, sync),
           CollectOk(
            [i \in DOMAIN delta.added |-> SyncbackNewChild(t, sync, delta.added[i])]
            \o [i \in DOMAIN sourced |->
                   SyncbackPlannerFromUpdate(t, sync, sourced[i], sync.diff[sourced[i]])]),
           SeqToSet(delta.removed))))

\* The closure syncback_update hands to with_children, lines 261-324: the
\* init middleware's children and removals first; then, unless the init
\* middleware is project, the added children, the changed children that have
\* a snapshot source path and a plan, and the removed ones.
SyncbackUpdateChildren(closure, t, sync) ==
    IF closure.init_middleware = Some("project")
    THEN Seeded(InitChildrenOf(closure, t, sync), Ok(<< >>), {})
    ELSE
    With(DeepDiffGetChildren(sync.diff, t.inner, sync.new_dom, sync.old.value.id),
         LAMBDA delta :
    With(SelectSeq(delta.changed,
                   LAMBDA c : /\ snapshot_source_path(t.metadata_map[c]).some
                              /\ SyncbackPlannerFromUpdateIsSome(t, c)),
         LAMBDA sourced :
    Seeded(InitChildrenOf(closure, t, sync),
           CollectOk(
            [i \in DOMAIN Claimed(sync.new_dom, delta.added) |->
                   SyncbackNewChild(t, sync, Claimed(sync.new_dom, delta.added)[i])]
            \o [i \in DOMAIN sourced |->
                   SyncbackPlannerFromUpdate(t, sync, sourced[i], sync.diff[sourced[i]])]),
           SeqToSet(delta.removed))))

\* The closure stops at the first child no middleware claims.
SyncbackNewChildren_StopAtUnclaimed(closure, t, sync) ==
    IF closure.init_middleware = Some("project")
    THEN Seeded(InitChildrenOf(closure, t, sync), Ok(<< >>), {})
    ELSE
    With(sync.new_dom[sync.new_ref].children, LAMBDA children :
    With(IF Claimed(sync.new_dom, children) = children THEN children
         ELSE SubSeq(children, 1,
                     (CHOOSE i \in DOMAIN children :
                         /\ Claimed(sync.new_dom, <<children[i]>>) = << >>
                         /\ \A j \in 1..(i - 1) :
                                Claimed(sync.new_dom, <<children[j]>>) # << >>) - 1),
         LAMBDA claimed :
    Seeded(InitChildrenOf(closure, t, sync),
           CollectOk([i \in DOMAIN claimed |-> SyncbackNewChild(t, sync, claimed[i])]),
           {})))

\* The closure syncback_new hands to with_children, lines 413-461: the init
\* middleware's children and removals, then, unless the init middleware is
\* project, the node of every child of the new instance for which a
\* middleware is selected; the others are passed over.
SyncbackNewChildren(closure, t, sync) ==
    IF closure.init_middleware = Some("project")
    THEN Seeded(InitChildrenOf(closure, t, sync), Ok(<< >>), {})
    ELSE
    With(Claimed(sync.new_dom, sync.new_dom[sync.new_ref].children), LAMBDA claimed :
    Seeded(InitChildrenOf(closure, t, sync),
           CollectOk([i \in DOMAIN claimed |-> SyncbackNewChild(t, sync, claimed[i])]),
           {}))

GetChildren(closure, t, sync) ==
    IF closure.kind = "update" THEN SyncbackUpdateChildren(closure, t, sync)
    ELSE IF closure.kind = "project" THEN ProjectGetChildren(closure, t, sync)
    ELSE SyncbackNewChildren(closure, t, sync)

----------------------------------------------------------------------------
(* RojoTree::syncback and syncback_process: snapshot/tree.rs *)

\* remove() as one step: the subtree is stripped breadth first, then destroyed.
RECURSIVE RemoveStrip(_, _)
RemoveStrip(t, queue) ==
    IF queue = << >> THEN t
    ELSE LET id == Head(queue)
         IN RemoveStrip(remove_metadata(t, id),
                        Tail(queue) \o (IF id \in DOMAIN t.inner
                                        THEN t.inner[id].children ELSE << >>))

remove(t, id) == [RemoveStrip(t, <<id>>) EXCEPT !.inner = WeakDomDestroy(@, id)]

\* InstanceContext::should_syncback_path
should_syncback_path(context, path) == path \notin context.syncback_ignore_paths

\* The test of lines 317-324 lets a rejected directory through: the chain
\* over fs_snapshot.dirs is left out.
violates_rules_FilesOnly(item) ==
    /\ item.instance_snapshot.metadata.fs_snapshot.some
    /\ \E path \in DOMAIN item.instance_snapshot.metadata.fs_snapshot.value.files :
          ~should_syncback_path(item.instance_snapshot.metadata.context, path)

\* Lines 317-324: a file or a directory of the node's FsSnapshot is rejected
\* by the syncback ignore rules of the node's context.
violates_rules(item) ==
    /\ item.instance_snapshot.metadata.fs_snapshot.some
    /\ \E path \in FsSnapshotPaths(item.instance_snapshot.metadata.fs_snapshot.value) :
          ~should_syncback_path(item.instance_snapshot.metadata.context, path)

\* RojoTree::get_root_id: the root_ref of the WeakDom, which WeakDom::new sets.
get_root_id(t) == RootRef

\* Lines 327-355 for a node that is not skipped, replaces its old instance
\* and has the root as the old one: remove(root) is called.
ReplacesRoot(item) ==
    /\ item.old_ref = Some(get_root_id(Tree))
    /\ item.use_snapshot_children
    /\ \/ ~item.instance_snapshot.metadata.fs_snapshot.some
       \/ \A path \in FsSnapshotPaths(item.instance_snapshot.metadata.fs_snapshot.value) :
             should_syncback_path(item.instance_snapshot.metadata.context, path)

\* The climb of lines 257-294: the nearest node, from id upwards, that has a
\* middleware, a matching new ref and a path as its instigating source.
RECURSIVE SyncableAncestor(_, _, _)
SyncableAncestor(t, d, id) ==
    IF id \notin DOMAIN t.inner \/ id \notin DOMAIN t.metadata_map
    THEN Err("No syncable ancestor")
    ELSE IF /\ t.metadata_map[id].middleware_id.some
            /\ get_matching_new_ref(d, id).some
            /\ snapshot_source_path(t.metadata_map[id]).some
    THEN Ok(id)
    ELSE SyncableAncestor(t, d, t.inner[id].parent)

\* Lines 255-313: the node the stack is primed with.
SyncbackFirstNode(t, fs, d, dom, base_target) ==
    IF base_target \notin DOMAIN t.inner \/ base_target \notin DOMAIN t.metadata_map
    THEN Err("Missing ref")
    ELSE With(SyncableAncestor(t, d, base_target), LAMBDA found :
         IF ~found.ok THEN found
         ELSE With(found.value, LAMBDA old_id :
              With(t.metadata_map[old_id], LAMBDA metadata :
              With(MiddlewareSyncback(metadata.middleware_id.value, t,
                      [vfs |-> fs, diff |-> d,
                       path |-> snapshot_source_path(metadata).value,
                       old |-> Some([id |-> old_id,
                                     middleware_context |-> metadata.middleware_context]),
                       new_dom |-> dom, new_ref |-> d[old_id],
                       metadata |-> metadata]), LAMBDA node :
              IF ~node.ok THEN node
              ELSE Ok([node.value EXCEPT
                          !.parent_ref = Some(t.inner[old_id].parent)])))))

\* update_props is left out: an old node keeps what it had.
SyncbackApply_NoUpdate(t, item) ==
    IF item.old_ref.some
    THEN IF item.use_snapshot_children
         THEN [tree |-> insert_instance(remove(t, item.old_ref.value),
                                        item.parent_ref.value, item.instance_snapshot),
               insert_ref |-> t.next_ref,
               expand |-> FALSE]
         ELSE [tree |-> t, insert_ref |-> item.old_ref.value, expand |-> TRUE]
    ELSE [tree |-> insert_instance(t, item.parent_ref.value, item.instance_snapshot),
          insert_ref |-> t.next_ref,
          expand |-> TRUE]

\* Lines 349-368: the tree after the node is applied, and the ref it now has.
SyncbackApply(t, item) ==
    IF item.old_ref.some
    THEN IF item.use_snapshot_children
         THEN [tree |-> insert_instance(remove(t, item.old_ref.value),
                                        item.parent_ref.value, item.instance_snapshot),
               insert_ref |-> t.next_ref,
               expand |-> FALSE]
         ELSE [tree |-> update_props(t, item.old_ref.value, item.instance_snapshot),
               insert_ref |-> item.old_ref.value,
               expand |-> TRUE]
    ELSE [tree |-> insert_instance(t, item.parent_ref.value, item.instance_snapshot),
          insert_ref |-> t.next_ref,
          expand |-> TRUE]

\* Every child the closure gives is pushed twice.
SyncbackExpand_Twice(t, fs, d, dom, item, insert_ref) ==
    IF ~item.get_children.some THEN Ok([children |-> << >>, removed |-> {}])
    ELSE With(t.metadata_map[insert_ref], LAMBDA metadata :
         With(GetChildren(item.get_children.value, t,
                 [vfs |-> fs, diff |-> d, path |-> item.path,
                  old |-> IF item.old_ref.some
                          THEN Some([id |-> item.old_ref.value,
                                     middleware_context |-> metadata.middleware_context])
                          ELSE None,
                  new_dom |-> dom, new_ref |-> item.new_ref,
                  metadata |-> metadata]), LAMBDA r :
         IF ~r.ok THEN r
         ELSE Ok([children |-> [i \in DOMAIN (r.value.children \o r.value.children) |->
                                   [(r.value.children \o r.value.children)[i] EXCEPT
                                       !.parent_ref = Some(insert_ref)]],
                  removed |-> r.value.removed])))

\* Lines 373-394: the children the node's closure gives, with their parent set.
SyncbackExpand(t, fs, d, dom, item, insert_ref) ==
    IF ~item.get_children.some THEN Ok([children |-> << >>, removed |-> {}])
    ELSE With(t.metadata_map[insert_ref], LAMBDA metadata :
         With(GetChildren(item.get_children.value, t,
                 [vfs |-> fs, diff |-> d, path |-> item.path,
                  old |-> IF item.old_ref.some
                          THEN Some([id |-> item.old_ref.value,
                                     middleware_context |-> metadata.middleware_context])
                          ELSE None,
                  new_dom |-> dom, new_ref |-> item.new_ref,
                  metadata |-> metadata]), LAMBDA r :
         IF ~r.ok THEN r
         ELSE Ok([children |-> [i \in DOMAIN r.value.children |->
                                   [r.value.children[i] EXCEPT
                                       !.parent_ref = Some(insert_ref)]],
                  removed |-> r.value.removed])))

\* The removed children are left in the tree.
RemoveAll_Later(t, removed) == t

\* Lines 391-393: remove(id) for every id the closure gave as removed.
RECURSIVE RemoveAll(_, _)
RemoveAll(t, removed) ==
    IF removed = {} THEN t
    ELSE LET id == CHOOSE r \in removed : TRUE
         IN RemoveAll(remove(t, id), removed \ {id})

----------------------------------------------------------------------------
(* The rbxm middleware's syncback: snapshot_middleware/rbxm.rs *)

\* SyncbackSnapshot::get_filtered_properties: the properties of the new
\* instance that the save filter (property_filters_save) does not strip.
get_filtered_properties(snapshot, referent) ==
    [k \in DOMAIN snapshot.new_tree[referent].properties \ snapshot.property_filters_save |->
        snapshot.new_tree[referent].properties[k]]

InstanceBuilderEmpty == [class_name |-> "", name |-> "", properties |-> NoProperties]

\* One of the expect() calls of the loop fails.
ClonePanic(message) == [panic |-> TRUE, message |-> message]

\* The queue is back in, back out.
RECURSIVE CloneLoop_BackOut(_, _, _, _)
CloneLoop_BackOut(snapshot, dom, old_to_parent, queue) ==
    IF queue = << >> THEN [panic |-> FALSE, dom |-> dom]
    ELSE With(queue[Len(queue)], LAMBDA referent :
         IF referent \notin DOMAIN snapshot.new_tree
         THEN ClonePanic("all Instances should be in the new subtree")
         ELSE IF referent \notin DOMAIN old_to_parent
         THEN ClonePanic("children should come after parents")
         ELSE
         With(snapshot.new_tree[referent], LAMBDA inst :
         With(Cardinality(DOMAIN dom) + 1, LAMBDA new :
         CloneLoop_BackOut(snapshot,
                   WeakDomInsert(dom, old_to_parent[referent], new,
                       [class_name |-> inst.class, name |-> inst.name,
                        properties |-> get_filtered_properties(snapshot, referent)]),
                   [c \in SeqToSet(inst.children) |-> new] @@ old_to_parent,
                   SubSeq(queue, 1, Len(queue) - 1) \o inst.children))))

\* The loop of clone_and_filter, lines 100-121: front out, back in.  The
\* instance is looked up in the new tree (lines 101-104) and its parent in
\* old_to_parent (lines 114-116); either expect() may panic.
RECURSIVE CloneLoop(_, _, _, _)
CloneLoop(snapshot, dom, old_to_parent, queue) ==
    IF queue = << >> THEN [panic |-> FALSE, dom |-> dom]
    ELSE With(Head(queue), LAMBDA referent :
         IF referent \notin DOMAIN snapshot.new_tree
         THEN ClonePanic("all Instances should be in the new subtree")
         ELSE IF referent \notin DOMAIN old_to_parent
         THEN ClonePanic("children should come after parents")
         ELSE
         With(snapshot.new_tree[referent], LAMBDA inst :
         With(Cardinality(DOMAIN dom) + 1, LAMBDA new :
         CloneLoop(snapshot,
                   WeakDomInsert(dom, old_to_parent[referent], new,
                       [class_name |-> inst.class, name |-> inst.name,
                        properties |-> get_filtered_properties(snapshot, referent)]),
                   [c \in SeqToSet(inst.children) |-> new] @@ old_to_parent,
                   Tail(queue) \o inst.children))))

\* clone_and_filter, lines 86-125: the new WeakDom, with an empty root, and
\* the ref of the root's first child.
clone_and_filter(snapshot) ==
    With(CloneLoop(snapshot, WeakDomNew(InstanceBuilderEmpty),
                   (snapshot.new :> RootRef), <<snapshot.new>>), LAMBDA cloned :
    IF cloned.panic THEN cloned
    ELSE [panic |-> FALSE, dom |-> cloned.dom,
          referent |-> cloned.dom[RootRef].children[1]])

\* hash_tree(dom, id).get(id): a hash two subtrees share exactly when they
\* agree in classes, names, properties and children.
RECURSIVE HashOf(_, _)
HashOf(dom, id) ==
    [class |-> dom[id].class, name |-> dom[id].name, properties |-> dom[id].properties,
     children |-> [i \in DOMAIN dom[id].children |-> HashOf(dom, dom[id].children[i])]]

\* InstanceSnapshot::from_instance: the instance itself as a snapshot.
InstanceSnapshotFromInstance(inst) ==
    [class_name |-> inst.class, name |-> inst.name, properties |-> inst.properties,
     metadata |-> InstanceMetadataNew, children |-> << >>]

\* The hashes are not compared: every syncback with an old counts as a no-op.
syncback_rbxm_NoCompare(snapshot, file_name) ==
    With(clone_and_filter(snapshot), LAMBDA cloned :
    IF snapshot.old.some
    THEN Ok([inst_snapshot |-> InstanceSnapshotFromInstance(cloned.dom[cloned.referent]),
             fs_snapshot |-> FsSnapshotNew,
             children |-> << >>, removed_children |-> << >>])
    ELSE Ok([inst_snapshot |-> InstanceSnapshotFromInstance(snapshot.new_tree[snapshot.new]),
             fs_snapshot |->
                 with_added_file(FsSnapshotNew, PathJoin(snapshot.parent_path, file_name),
                     RbxmBytes(<<InstanceSnapshotFromTree(cloned.dom, cloned.referent)>>)),
             children |-> << >>, removed_children |-> << >>]))

syncback_rbxm(snapshot, file_name) ==
    With(clone_and_filter(snapshot), LAMBDA cloned :
    IF /\ snapshot.old.some
       /\ HashOf(cloned.dom, cloned.referent)
             = HashOf(snapshot.old_tree.inner, snapshot.old.value)
    THEN Ok([inst_snapshot |-> InstanceSnapshotFromInstance(cloned.dom[cloned.referent]),
             fs_snapshot |-> FsSnapshotNew,
             children |-> << >>, removed_children |-> << >>])
    ELSE Ok([inst_snapshot |-> InstanceSnapshotFromInstance(snapshot.new_tree[snapshot.new]),
             fs_snapshot |->
                 with_added_file(FsSnapshotNew, PathJoin(snapshot.parent_path, file_name),
                     RbxmBytes(<<InstanceSnapshotFromTree(cloned.dom, cloned.referent)>>)),
             children |-> << >>, removed_children |-> << >>]))

----------------------------------------------------------------------------
(* The specification of syncback *)

\* Syncbacks run one after the other on the same tree and new tree.
MaxRuns == 2

FolderProperties == [Archivable |-> [type |-> "Bool", value |-> FALSE]]

ToggleProperties(properties) ==
    IF properties = NoProperties THEN FolderProperties ELSE NoProperties

\* The file systems snapshot_from_vfs starts from: /src, with or without an
\* init.meta.json, a directory A (with or without its own init.meta.json and
\* a directory B) and a model file m.rbxm.
SrcPath == <<"src">>

MetaFile == VfsFile(MetaBytes(None, FolderProperties))

ModelFile ==
    VfsFile(RbxmBytes(<<InstanceSnapshot(
        [class_name |-> "Part", name |-> "B", properties |-> NoProperties],
        InstanceMetadataNew,
        <<InstanceSnapshot([class_name |-> "Folder", name |-> "A",
                            properties |-> NoProperties], InstanceMetadataNew, << >>)>>)>>))

\* A project file: a DataModel with one child.
ProjectFile ==
    VfsFile([format |-> "project.json", class_name |-> ProjectClass,
             properties |-> FolderProperties,
             children |-> <<InstanceSnapshot(
                 [class_name |-> "Folder", name |-> "FromProject",
                  properties |-> NoProperties], InstanceMetadataNew, << >>)>>])

FileSystemParts ==
    [root_meta : {<< >>, (<<"src", "init.meta.json">> :> MetaFile)},
     a : {<< >>, (<<"src", "A">> :> VfsDir)},
     a_meta : {<< >>, (<<"src", "A", "init.meta.json">> :> MetaFile)},
     a_b : {<< >>, (<<"src", "A", "B">> :> VfsDir)},
     model : {<< >>, (<<"src", "m.rbxm">> :> ModelFile)}]

FileSystems ==
    {(SrcPath :> VfsDir) @@ parts.root_meta @@ parts.a @@ parts.a_meta
        @@ parts.a_b @@ parts.model :
        parts \in {q \in FileSystemParts : q.a = << >> => q.a_meta = << >> /\ q.a_b = << >>}}

\* The tree as a snapshot without metadata, and the new trees syncback is
\* given: the same tree, or the tree with one edit made to it.
PlainSnapshot(t) == InstanceSnapshotFromTree(t.inner, RootRef)

NewFolder(properties, children) ==
    InstanceSnapshot([class_name |-> "Folder", name |-> "C", properties |-> properties],
                     InstanceMetadataNew, children)

FirstIsFolder(snapshot) ==
    snapshot.children # << >> /\ snapshot.children[1].class_name = "Folder"

Edits(snapshot) ==
    {snapshot,
     [snapshot EXCEPT !.properties = ToggleProperties(@)],
     [snapshot EXCEPT !.children = Append(@, NewFolder(NoProperties, << >>))],
     [snapshot EXCEPT !.children =
         Append(@, NewFolder(FolderProperties, <<NewFolder(NoProperties, << >>)>>))]}
    \cup (IF snapshot.children = << >> THEN {}
          ELSE {[snapshot EXCEPT !.children = Tail(@)]})
    \cup (IF ~FirstIsFolder(snapshot) THEN {}
          ELSE {[snapshot EXCEPT !.children[1].properties = ToggleProperties(@)],
                [snapshot EXCEPT !.children[1].children =
                    Append(@, NewFolder(NoProperties, << >>))]})

\* The nodes syncback is started from: the directories, and the instances
\* inside a model file, which have no middleware of their own.
SyncbackTargets(t) ==
    {id \in DOMAIN t.inner : t.metadata_map[id].middleware_id # Some("rbxm")}

InitSyncback ==
    /\ vfs \in FileSystems
    /\ \E t \in {RojoTreeNew(snapshot_from_vfs(DefaultContext, vfs, SrcPath).value.value)} :
          /\ inner = t.inner
          /\ next_ref = t.next_ref
          /\ metadata_map = t.metadata_map
          /\ path_to_ids = t.path_to_ids
          /\ new_dom \in {RojoTreeNew(e).inner : e \in Edits(PlainSnapshot(t))}
          /\ \E whole \in {DeepDiffNew(t.inner, RootRef, new_dom, RootRef)} :
                \E old_id \in SyncbackTargets(t) \cap DOMAIN whole :
                   call = [fn |-> "syncback", old_id |-> old_id,
                           new_id |-> whole[old_id], run |-> 1]
          /\ ret = [fn |-> "snapshot_from_vfs", vfs |-> vfs, tree |-> t]
    /\ diff = << >>
    /\ syncable = NoRef
    /\ trace = << >>
    /\ processing = << >>
    /\ ids = {}
    /\ inner0 = << >>
    /\ pc = "idle"
    /\ last_op = [kind |-> "none"]
    /\ RemoveIdle

\* What a run of syncback_process does, as entries of its trace: the
\* middleware asked for the first node ("syncback", the old ref), a node's
\* FsSnapshot reconciled, the node applied to the tree, its get_children
\* closure called, the closure of its init middleware called, a child pushed
\* (each with the node's new ref), and the removed old ids handed to
\* remove().
Event(ev, ref) == [ev |-> ev, ref |-> ref, refs |-> {}]

\* The node's closure holds the children its init middleware's closure gave:
\* that closure was called when the node was made (dir.rs:381-384).
InitCalledEarly(node) ==
    /\ node.get_children.some
    /\ node.get_children.value.init_children.some
    /\ node.get_children.value.init_children.value.computed

\* The node's closure calls the closure of its init middleware when it runs
\* itself (dir.rs:273-277).
InitCalledLate(node) ==
    /\ node.get_children.some
    /\ node.get_children.value.init_children.some
    /\ ~node.get_children.value.init_children.value.computed

\* A child the closure gave: what making it called, then the push.
PushEvents(child) ==
    (IF InitCalledEarly(child) THEN <<Event("init_get_children", child.new_ref)>>
     ELSE << >>) \o <<Event("push", child.new_ref)>>

RemoveEvents(removed) ==
    IF removed = {} THEN << >> ELSE <<[ev |-> "remove", ref |-> NoRef, refs |-> removed]>>

\* syncback(), lines 229-246, up to the first node on the stack.
SyncbackBegin ==
    /\ pc = "idle"
    /\ call.fn = "syncback"
    /\ \E d \in {DeepDiffNew(inner, call.old_id, new_dom, call.new_id)} :
       \E first \in {SyncbackFirstNode(Tree, vfs, d, new_dom, call.old_id)} :
          /\ diff' = d
          /\ IF first.ok
             THEN /\ processing' = <<first.value>>
                  /\ trace' = <<Event("syncback", first.value.old_ref.value),
                                Event("push", first.value.new_ref)>>
                  /\ pc' = "syncback"
                  /\ UNCHANGED ret
             ELSE /\ processing' = << >>
                  /\ trace' = << >>
                  /\ pc' = "returned"
                  /\ ret' = [fn |-> "syncback", run |-> call.run, result |-> first]
    /\ last_op' = [kind |-> "syncback", run |-> call.run]
    /\ UNCHANGED <<treeVars, removeVars, ids, inner0, call, vfs, new_dom, syncable>>

\* How FsSnapshot::reconcile ends: Ok, or an error of the file system that
\* comes before anything was done or after everything was.
ReconcileOutcomes == {"ok", "failed_untouched", "failed_done"}

\* One turn of the while loop, lines 315-396, with the given end of
\* FsSnapshot::reconcile.
SyncbackTurn(io) ==
    /\ pc = "syncback"
    /\ processing # << >>
    /\ ~ReplacesRoot(VecPop(processing).item)
    /\ \E popped \in {VecPop(processing)} :
       \E item \in {popped.item} :
       \E fs_snapshot \in {item.instance_snapshot.metadata.fs_snapshot} :
          IF violates_rules(item)
          THEN /\ io = "ok"
               /\ processing' = popped.rest
               /\ last_op' = [kind |-> "syncback_skip", run |-> call.run]
               /\ UNCHANGED <<treeVars, vfs, pc, ret, trace>>
          ELSE IF io # "ok"
          THEN \* line 347: the error of reconcile leaves the function
               \E reconciled \in
                   {FsSnapshotReconcile(vfs,
                        IF item.old_ref.some
                        THEN metadata_map[item.old_ref.value].fs_snapshot ELSE None,
                        fs_snapshot)} :
                  /\ vfs' = IF io = "failed_done" THEN reconciled.vfs ELSE vfs
                  /\ last_op' = [kind |-> "reconcile_failed", run |-> call.run,
                                 old_ref |-> item.old_ref, new_ref |-> item.new_ref,
                                 path |-> item.path, fs_snapshot |-> fs_snapshot]
                  /\ processing' = << >>
                  /\ trace' = Append(trace, Event("reconcile_failed", item.new_ref))
                  /\ pc' = "returned"
                  /\ ret' = [fn |-> "syncback", run |-> call.run,
                             result |-> Err("reconcile")]
                  /\ UNCHANGED treeVars
          ELSE \E reconciled \in
                   {FsSnapshotReconcile(vfs,
                        IF item.old_ref.some
                        THEN metadata_map[item.old_ref.value].fs_snapshot ELSE None,
                        fs_snapshot)} :
               \E applied \in {SyncbackApply(Tree, item)} :
               \E expanded \in
                   {IF applied.expand
                    THEN SyncbackExpand(applied.tree, reconciled.vfs, diff, new_dom,
                                        item, applied.insert_ref)
                    ELSE Ok([children |-> << >>, removed |-> {}])} :
                  /\ vfs' = reconciled.vfs
                  /\ last_op' = [kind |-> "syncback_node", run |-> call.run,
                                 old_ref |-> item.old_ref, path |-> item.path,
                                 middleware_id |->
                                     item.instance_snapshot.metadata.middleware_id,
                                 fs_snapshot |-> fs_snapshot,
                                 written |-> reconciled.written,
                                 created |-> reconciled.created,
                                 deleted |-> reconciled.deleted,
                                 new_ref |-> item.new_ref,
                                 closure |->
                                     IF applied.expand /\ item.get_children.some
                                     THEN Some(item.get_children.value) ELSE None,
                                 children |->
                                     IF ~expanded.ok THEN << >>
                                     ELSE [i \in DOMAIN expanded.value.children |->
                                              [old_ref |-> expanded.value.children[i].old_ref,
                                               new_ref |-> expanded.value.children[i].new_ref]],
                                 removed |->
                                     IF expanded.ok THEN expanded.value.removed ELSE {}]
                  /\ IF expanded.ok
                     THEN /\ SetTree(RemoveAll(applied.tree, expanded.value.removed))
                          /\ processing' = popped.rest \o expanded.value.children
                          /\ trace' = trace
                                \o <<Event("reconcile", item.new_ref),
                                      Event("apply", item.new_ref)>>
                                \o (IF applied.expand /\ item.get_children.some
                                    THEN <<Event("get_children", item.new_ref)>>
                                    ELSE << >>)
                                \o (IF applied.expand /\ InitCalledLate(item)
                                    THEN <<Event("init_get_children", item.new_ref)>>
                                    ELSE << >>)
                                \o ConcatAll([i \in DOMAIN expanded.value.children |->
                                                 PushEvents(expanded.value.children[i])])
                                \o RemoveEvents(expanded.value.removed)
                          /\ UNCHANGED <<pc, ret>>
                     ELSE /\ SetTree(applied.tree)
                          /\ processing' = << >>
                          /\ trace' = trace
                                \o <<Event("reconcile", item.new_ref),
                                      Event("apply", item.new_ref),
                                      Event("get_children", item.new_ref)>>
                          /\ pc' = "returned"
                          /\ ret' = [fn |-> "syncback", run |-> call.run,
                                     result |-> expanded]
    /\ UNCHANGED <<removeVars, ids, inner0, call, new_dom, diff, syncable>>

\* A turn of the loop on a file system that does not fail.
SyncbackStep == SyncbackTurn("ok")

\* A turn of the loop on a file system that may fail.
SyncbackStepFallible == \E io \in ReconcileOutcomes : SyncbackTurn(io)

\* The stack is empty: Ok(()), line 398.  The next run is given the tree this
\* one left and the same new tree.
SyncbackEnd ==
    /\ pc = "syncback"
    /\ processing = << >>
    /\ ret' = [fn |-> "syncback", run |-> call.run, result |-> Ok(<< >>),
               vfs |-> vfs, tree |-> Tree]
    /\ last_op' = [kind |-> "syncback_end", run |-> call.run]
    /\ IF call.run < MaxRuns
       THEN pc' = "idle" /\ call' = [call EXCEPT !.run = @ + 1]
       ELSE pc' = "returned" /\ UNCHANGED call
    /\ UNCHANGED <<treeVars, removeVars, fixVars, vfs, syncVars>>

\* The rbxm middleware asked for a model file node of the tree and the new
\* instance that matches it; the answer is recorded, nothing is applied.
SyncbackRbxm ==
    /\ pc = "idle"
    /\ call.fn = "syncback"
    /\ last_op.kind # "syncback_rbxm"
    /\ \E whole \in {DeepDiffNew(inner, RootRef, new_dom, RootRef)} :
       \E old_ref \in {id \in DOMAIN whole :
                           metadata_map[id].middleware_id = Some("rbxm")} :
       \E path \in {snapshot_source_path(metadata_map[old_ref]).value} :
          last_op' = [kind |-> "syncback_rbxm", run |-> call.run, old_ref |-> old_ref,
                      path |-> path,
                      result |-> syncback_rbxm(
                          [new_tree |-> new_dom, new |-> whole[old_ref],
                           old |-> Some(old_ref), old_tree |-> Tree,
                           parent_path |-> PathParent(path),
                           property_filters_save |-> {}],
                          PathFileName(path))]
    /\ UNCHANGED <<treeVars, removeVars, fixVars, fnVars, vfs, syncVars, pc>>

\* syncback_rbxm called on its own: for any instance of the new tree, with
\* no old instance or with any instance of the tree as the old one.
RbxmParentPaths == {SrcPath, <<"src", "A">>}

RbxmFileName == "m.rbxm"

SyncbackRbxmCall ==
    /\ pc = "idle"
    /\ call.fn = "syncback"
    /\ last_op.kind \in {"none", "syncback_end"}
    /\ \E old \in {None} \cup {Some(id) : id \in DOMAIN inner} :
       \E new \in DOMAIN new_dom :
       \E parent_path \in RbxmParentPaths :
          last_op' = [kind |-> "syncback_rbxm_call", run |-> call.run,
                      old |-> old, new |-> new, parent_path |-> parent_path,
                      file_name |-> RbxmFileName,
                      result |-> syncback_rbxm(
                          [new_tree |-> new_dom, new |-> new,
                           old |-> old, old_tree |-> Tree,
                           parent_path |-> parent_path,
                           property_filters_save |-> {}],
                          RbxmFileName)]
    /\ UNCHANGED <<treeVars, removeVars, fixVars, fnVars, vfs, syncVars, pc>>

NextSyncback ==
    \/ SyncbackRbxm
    \/ SyncbackRbxmCall
    \/ SyncbackBegin
    \/ SyncbackStep
    \/ SyncbackEnd

SpecSyncback == InitSyncback /\ [][NextSyncback]_vars

----------------------------------------------------------------------------
(* Properties of syncback *)

\* The new tree is the tree t, instance for instance.
Identical(t) == new_dom = RojoTreeNew(PlainSnapshot(t)).inner

\* The first syncback of a tree that snapshot_from_vfs built is under way,
\* against a new tree identical to it.
RoundTrip == ret.fn = "snapshot_from_vfs" /\ Identical(ret.tree)

\* The second syncback is under way, after a first one that came to its end.
SecondRun == ret.fn = "syncback" /\ ret.run = 1 /\ ret.result.ok /\ call.run = 2

NoFsSnapshot(fs_snapshot) == ~fs_snapshot.some \/ FsSnapshotIsEmpty(fs_snapshot.value)

\* What the syncback of a directory node hands to reconcile: the directory
\* itself and, when the instance has properties, its init.meta.json.
DirectoryFsSnapshot(op) ==
    /\ op.middleware_id = Some("directory")
    /\ op.fs_snapshot.some
    /\ op.fs_snapshot.value.dirs = {op.path}
    /\ DOMAIN op.fs_snapshot.value.files \subseteq {PathJoin(op.path, "init.meta.json")}

\* The rbxm middleware's answer for a model file node: nothing to write.
RbxmNoOp(op) ==
    /\ op.result.ok
    /\ FsSnapshotIsEmpty(op.result.value.fs_snapshot)
    /\ op.result.value.children = << >>

----------------------------------------------------------------------------
(* The specification of syncback_process: the ancestor climb, step by step, *)
(* then the loop of SyncbackStep                                            *)

InstigatingSourceProjectNode(path) == [kind |-> "ProjectNode", path |-> path]

\* RojoTree::get_instance(id).is_some()
HasInstance(t, id) == id \in DOMAIN t.inner

\* Lines 268-275: the node has a middleware and a matching new ref, and its
\* instigating source is a path.
IsSyncable(t, d, id) ==
    /\ t.metadata_map[id].middleware_id.some
    /\ get_matching_new_ref(d, id).some
    /\ t.metadata_map[id].instigating_source.some
    /\ t.metadata_map[id].instigating_source.value.kind = "Path"

\* The climb goes straight to the root.
ClimbParent_Root(t, id) == IF id = RootRef THEN NoRef ELSE RootRef

\* The climb stays where it is.
ClimbParent_Self(t, id) == id

\* Line 289: syncable.parent()
ClimbParent(t, id) == t.inner[id].parent

\* A tree as a project file leaves it: the node id is sourced from a project
\* node, has lost its source, or has no middleware.
OverlayKinds == {"project", "no_source", "no_middleware"}

Overlay(t, id, kind) ==
    [t EXCEPT !.metadata_map[id] =
        CASE kind = "project" ->
                 [@ EXCEPT !.instigating_source =
                      Some(InstigatingSourceProjectNode(<<"default.project.json">>))]
          [] kind = "no_source" -> [@ EXCEPT !.instigating_source = None]
          [] kind = "no_middleware" -> [@ EXCEPT !.middleware_id = None]]

Overlays(t) ==
    {t} \cup {Overlay(t, id, kind) :
                 id \in {r \in DOMAIN t.inner : t.metadata_map[r].middleware_id.some},
                 kind \in OverlayKinds}

\* syncback_process is given a diff of the whole trees and any ref of the
\* tree, or one that is not in it, as its base_target.
InitProcess ==
    /\ vfs \in FileSystems
    /\ \E t \in Overlays(RojoTreeNew(
                   snapshot_from_vfs(DefaultContext, vfs, SrcPath).value.value)) :
          /\ inner = t.inner
          /\ next_ref = t.next_ref
          /\ metadata_map = t.metadata_map
          /\ path_to_ids = t.path_to_ids
          /\ new_dom \in {RojoTreeNew(e).inner : e \in Edits(PlainSnapshot(t))}
          /\ diff = DeepDiffNew(t.inner, RootRef, new_dom, RootRef)
          /\ \E base_target \in DOMAIN t.inner \cup {t.next_ref} :
                call = [fn |-> "syncback_process", base_target |-> base_target,
                        run |-> MaxRuns, vfs |-> vfs, tree |-> t]
    /\ ret = [fn |-> "none"]
    /\ syncable = NoRef
    /\ trace = << >>
    /\ processing = << >>
    /\ ids = {}
    /\ inner0 = << >>
    /\ pc = "idle"
    /\ last_op = [kind |-> "none"]
    /\ RemoveIdle

\* The children a snapshot carries when it stands for a whole subtree of the
\* new tree.
SnapshotChildren(dom, ref) == InstanceSnapshotFromTree(dom, ref).children

\* Lines 258-260: get_instance(base_target), or "Missing ref".
ProcessBegin ==
    /\ pc = "idle"
    /\ call.fn = "syncback_process"
    /\ IF HasInstance(Tree, call.base_target)
       THEN /\ syncable' = call.base_target
            /\ pc' = "climb"
            /\ UNCHANGED ret
       ELSE /\ pc' = "returned"
            /\ ret' = [fn |-> "syncback_process", result |-> Err("Missing ref")]
            /\ UNCHANGED syncable
    /\ last_op' = [kind |-> "syncback_process"]
    /\ UNCHANGED <<treeVars, removeVars, fixVars, call, vfs, new_dom, diff, trace>>

\* One turn of the loop of lines 261-293 and, when it breaks, lines 296-312:
\* the middleware of the node found gives the node the stack is primed with.
ClimbTurn(replacing) ==
    /\ pc = "climb"
    /\ IF IsSyncable(Tree, diff, syncable)
       THEN \E metadata \in {metadata_map[syncable]} :
            \E node \in {MiddlewareSyncback(metadata.middleware_id.value, Tree,
                            [vfs |-> vfs, diff |-> diff,
                             path |-> metadata.instigating_source.value.path,
                             old |-> Some([id |-> syncable,
                                           middleware_context |->
                                               metadata.middleware_context]),
                             new_dom |-> new_dom, new_ref |-> diff[syncable],
                             metadata |-> metadata])} :
               /\ last_op' = [kind |-> "climb_found", old_id |-> syncable,
                              run |-> call.run]
               /\ IF node.ok
                  THEN /\ processing' = <<[node.value EXCEPT
                                              !.parent_ref = Some(inner[syncable].parent),
                                              !.use_snapshot_children = @ \/ replacing,
                                              !.instance_snapshot.children =
                                                  IF replacing
                                                  THEN SnapshotChildren(new_dom,
                                                                        node.value.new_ref)
                                                  ELSE @]>>
                       /\ trace' = <<Event("syncback", syncable),
                                     Event("push", node.value.new_ref)>>
                       /\ pc' = "syncback"
                       /\ UNCHANGED ret
                  ELSE /\ trace' = <<Event("syncback", syncable)>>
                       /\ pc' = "returned"
                       /\ ret' = [fn |-> "syncback_process", result |-> node]
                       /\ UNCHANGED processing
               /\ UNCHANGED syncable
       ELSE /\ IF HasInstance(Tree, ClimbParent(Tree, syncable))
               THEN /\ syncable' = ClimbParent(Tree, syncable)
                    /\ UNCHANGED <<pc, ret>>
               ELSE /\ pc' = "returned"
                    /\ ret' = [fn |-> "syncback_process",
                               result |-> Err("No syncable ancestor")]
                    /\ UNCHANGED syncable
            /\ last_op' = [kind |-> "climb", run |-> call.run]
            /\ UNCHANGED <<processing, trace>>
    /\ UNCHANGED <<treeVars, removeVars, ids, inner0, call, vfs, new_dom, diff>>

\* The middlewares of src/ leave use_snapshot_children false.
ClimbStep == ClimbTurn(FALSE)

NextProcess ==
    \/ ProcessBegin
    \/ ClimbStep
    \/ SyncbackStep
    \/ SyncbackEnd

SpecProcess == InitProcess /\ [][NextProcess]_vars

\* The call runs on: it begins, and a turn of the climb that can be taken
\* is taken.
SpecProcessFair == SpecProcess /\ WF_vars(ProcessBegin) /\ WF_vars(ClimbStep)

----------------------------------------------------------------------------
(* The specification of syncback under syncback ignore rules               *)

\* The contexts the tree is snapshotted with: one path is ignored.
SkipContexts ==
    {[DefaultContext EXCEPT !.syncback_ignore_paths = {path}] :
        path \in {<<"src", "A">>, <<"src", "A", "init.meta.json">>, <<"src", "C">>,
                  <<"src", "C", "C">>, <<"src", "A", "C">>}}

\* New trees with more than one node to write: the edits of one place, and
\* the first child changed while a Folder with a child is added beside it.
SkipEdits(snapshot) ==
    Edits(snapshot)
    \cup (IF ~FirstIsFolder(snapshot) THEN {}
          ELSE {[snapshot EXCEPT
                    !.children[1].properties = ToggleProperties(@),
                    !.children =
                        Append(@, NewFolder(FolderProperties,
                                            <<NewFolder(NoProperties, << >>)>>))]})

InitSkip ==
    /\ vfs \in FileSystems
    /\ \E context \in SkipContexts :
       \E t \in {RojoTreeNew(snapshot_from_vfs(context, vfs, SrcPath).value.value)} :
          /\ inner = t.inner
          /\ next_ref = t.next_ref
          /\ metadata_map = t.metadata_map
          /\ path_to_ids = t.path_to_ids
          /\ new_dom \in {RojoTreeNew(e).inner : e \in SkipEdits(PlainSnapshot(t))}
          /\ call = [fn |-> "syncback", old_id |-> RootRef, new_id |-> RootRef,
                     run |-> MaxRuns]
          /\ ret = [fn |-> "snapshot_from_vfs", vfs |-> vfs, tree |-> t]
    /\ diff = << >>
    /\ syncable = NoRef
    /\ trace = << >>
    /\ processing = << >>
    /\ ids = {}
    /\ inner0 = << >>
    /\ pc = "idle"
    /\ last_op = [kind |-> "none"]
    /\ RemoveIdle

NextSkip ==
    \/ SyncbackBegin
    \/ SyncbackStep
    \/ SyncbackEnd

SpecSkip == InitSkip /\ [][NextSkip]_vars

----------------------------------------------------------------------------
(* The specification of a syncback that removes what an earlier syncback   *)
(* wrote: the second run is given a new tree with a child taken out        *)

RemoveAt(seq, i) == SubSeq(seq, 1, i - 1) \o SubSeq(seq, i + 1, Len(seq))

\* The tree with one of the root's children taken out.
Removals(snapshot) ==
    {[snapshot EXCEPT !.children = RemoveAt(@, i)] : i \in DOMAIN snapshot.children}

\* Between two runs the caller hands in another new tree, made from the
\* tree as the first run left it; the second run starts at the root.  The
\* tree the run starts from is kept with the call.
SyncbackNewTree ==
    /\ pc = "idle"
    /\ call.fn = "syncback"
    /\ last_op.kind = "syncback_end"
    /\ "before" \notin DOMAIN call
    /\ new_dom' \in {RojoTreeNew(e).inner : e \in Removals(PlainSnapshot(Tree))}
    /\ call' = [fn |-> "syncback", old_id |-> RootRef, new_id |-> RootRef,
                run |-> call.run, before |-> Tree]
    /\ last_op' = [kind |-> "new_tree", run |-> call.run]
    /\ UNCHANGED <<treeVars, removeVars, fixVars, ret, vfs, diff, syncable, trace, pc>>

NextRemoval ==
    \/ SyncbackBegin
    \/ SyncbackStep
    \/ SyncbackEnd
    \/ SyncbackNewTree

SpecRemoval == InitSyncback /\ [][NextRemoval]_vars

----------------------------------------------------------------------------
(* The specification of syncback_process with a first node that replaces   *)
(* its old instance wholesale (use_snapshot_children)                      *)

\* The middleware of the node found gives a node with use_snapshot_children
\* set and the subtree of the new tree as the snapshot's children, as a
\* middleware that writes a whole subtree to one file does.
ClimbStepReplacing == ClimbTurn(TRUE)

\* Lines 343-354 for a node that replaces the root: the FsSnapshot is
\* reconciled, remove(root) takes the metadata of every node out (lines
\* 156-162), and WeakDom::destroy panics on the root (line 164).
SyncbackPanic ==
    /\ pc = "syncback"
    /\ processing # << >>
    /\ \E item \in {VecPop(processing).item} :
          /\ ReplacesRoot(item)
          /\ \E reconciled \in
                {FsSnapshotReconcile(vfs, metadata_map[item.old_ref.value].fs_snapshot,
                                     item.instance_snapshot.metadata.fs_snapshot)} :
                vfs' = reconciled.vfs
          /\ SetTree(RemoveStrip(Tree, <<item.old_ref.value>>))
          /\ trace' = trace \o <<Event("reconcile", item.new_ref)>>
                             \o RemoveEvents({item.old_ref.value})
    /\ pc' = "panicked"
    /\ last_op' = [kind |-> "panic", run |-> call.run]
    /\ UNCHANGED <<removeVars, ids, inner0, call, new_dom, diff, syncable,
                   processing, ret>>

NextReplace ==
    \/ ProcessBegin
    \/ ClimbStep
    \/ ClimbStepReplacing
    \/ SyncbackStep
    \/ SyncbackPanic
    \/ SyncbackEnd

SpecReplace == InitProcess /\ [][NextReplace]_vars

----------------------------------------------------------------------------
(* The specification of syncback with an init middleware: the new tree     *)
(* holds a DataModel, which a directory writes with the project middleware *)
(* as its init middleware                                                  *)

NewProject(children) ==
    InstanceSnapshot([class_name |-> ProjectClass, name |-> "P",
                      properties |-> NoProperties], InstanceMetadataNew, children)

\* The tree with its root turned into a DataModel, with a DataModel added
\* (with or without a child of its own), or with a new Folder holding one.
InitEdits(snapshot) ==
    {[snapshot EXCEPT !.class_name = ProjectClass],
     [snapshot EXCEPT !.children = Append(@, NewProject(<< >>))],
     [snapshot EXCEPT !.children =
         Append(@, NewProject(<<NewFolder(NoProperties, << >>)>>))],
     [snapshot EXCEPT !.children =
         Append(@, NewFolder(NoProperties, <<NewProject(<< >>)>>))]}

InitDirInit ==
    /\ vfs \in FileSystems
    /\ \E t \in {RojoTreeNew(snapshot_from_vfs(DefaultContext, vfs, SrcPath).value.value)} :
          /\ inner = t.inner
          /\ next_ref = t.next_ref
          /\ metadata_map = t.metadata_map
          /\ path_to_ids = t.path_to_ids
          /\ new_dom \in {RojoTreeNew(e).inner : e \in InitEdits(PlainSnapshot(t))}
          /\ diff = DeepDiffNew(t.inner, RootRef, new_dom, RootRef)
          /\ \E base_target \in SyncbackTargets(t) :
                call = [fn |-> "syncback_process", base_target |-> base_target,
                        run |-> MaxRuns, vfs |-> vfs, tree |-> t]
    /\ ret = [fn |-> "none"]
    /\ syncable = NoRef
    /\ trace = << >>
    /\ processing = << >>
    /\ ids = {}
    /\ inner0 = << >>
    /\ pc = "idle"
    /\ last_op = [kind |-> "none"]
    /\ RemoveIdle

SpecDirInit == InitDirInit /\ [][NextProcess]_vars

----------------------------------------------------------------------------
(* The specification of syncback_process over trees a project file has     *)
(* left its mark on, with new trees whose root may have become a DataModel *)

\* The edits of one place, each with the root as it was or as a DataModel.
ClosureEdits(snapshot) ==
    SkipEdits(snapshot)
    \cup {[e EXCEPT !.class_name = ProjectClass] : e \in SkipEdits(snapshot)}

InitClosure ==
    /\ vfs \in FileSystems
    /\ \E t \in Overlays(RojoTreeNew(
                   snapshot_from_vfs(DefaultContext, vfs, SrcPath).value.value)) :
          /\ inner = t.inner
          /\ next_ref = t.next_ref
          /\ metadata_map = t.metadata_map
          /\ path_to_ids = t.path_to_ids
          /\ new_dom \in {RojoTreeNew(e).inner : e \in ClosureEdits(PlainSnapshot(t))}
          /\ diff = DeepDiffNew(t.inner, RootRef, new_dom, RootRef)
          /\ \E base_target \in SyncbackTargets(t) :
                call = [fn |-> "syncback_process", base_target |-> base_target,
                        run |-> MaxRuns, vfs |-> vfs, tree |-> t]
    /\ ret = [fn |-> "none"]
    /\ syncable = NoRef
    /\ trace = << >>
    /\ processing = << >>
    /\ ids = {}
    /\ inner0 = << >>
    /\ pc = "idle"
    /\ last_op = [kind |-> "none"]
    /\ RemoveIdle

SpecClosure == InitClosure /\ [][NextProcess]_vars

----------------------------------------------------------------------------
(* The specification of syncback_process over a directory whose tree       *)
(* records an init file: /src holds an init.rbxm or an init.project.json   *)

RecordedFileSystems ==
    UNION {{(<<"src", "init.rbxm">> :> ModelFile) @@ fs,
            (<<"src", "init.project.json">> :> ProjectFile) @@ fs} : fs \in FileSystems}

\* The edits of one place, each with the root's class as it was, as a Folder
\* or as a DataModel.
RecordedEdits(snapshot) ==
    Edits(snapshot)
    \cup {[e EXCEPT !.class_name = class] :
             e \in Edits(snapshot), class \in {"Folder", ProjectClass}}

InitRecorded ==
    /\ vfs \in RecordedFileSystems
    /\ \E t \in {RojoTreeNew(snapshot_from_vfs(DefaultContext, vfs, SrcPath).value.value)} :
          /\ inner = t.inner
          /\ next_ref = t.next_ref
          /\ metadata_map = t.metadata_map
          /\ path_to_ids = t.path_to_ids
          /\ new_dom \in {RojoTreeNew(e).inner : e \in RecordedEdits(PlainSnapshot(t))}
          /\ diff = DeepDiffNew(t.inner, RootRef, new_dom, RootRef)
          /\ \E base_target \in SyncbackTargets(t) :
                call = [fn |-> "syncback_process", base_target |-> base_target,
                        run |-> MaxRuns, vfs |-> vfs, tree |-> t]
    /\ ret = [fn |-> "none"]
    /\ syncable = NoRef
    /\ trace = << >>
    /\ processing = << >>
    /\ ids = {}
    /\ inner0 = << >>
    /\ pc = "idle"
    /\ last_op = [kind |-> "none"]
    /\ RemoveIdle

SpecRecorded == InitRecorded /\ [][NextProcess]_vars

----------------------------------------------------------------------------
(* The specification of syncback_process with new trees in which one child *)
(* of the root is gone and a new Folder has come                           *)

\* The tree with one of the root's children taken out and a Folder, with or
\* without a child of its own, put in.
SwapEdits(snapshot) ==
    {[e EXCEPT !.children = Append(@, NewFolder(NoProperties, children))] :
        e \in Removals(snapshot),
        children \in {<< >>, <<NewFolder(NoProperties, << >>)>>}}

InitSwap ==
    /\ vfs \in FileSystems
    /\ \E t \in {RojoTreeNew(snapshot_from_vfs(DefaultContext, vfs, SrcPath).value.value)} :
          /\ inner = t.inner
          /\ next_ref = t.next_ref
          /\ metadata_map = t.metadata_map
          /\ path_to_ids = t.path_to_ids
          /\ new_dom \in {RojoTreeNew(e).inner :
                             e \in SkipEdits(PlainSnapshot(t)) \cup SwapEdits(PlainSnapshot(t))
                                      \cup InitEdits(PlainSnapshot(t))}
          /\ diff = DeepDiffNew(t.inner, RootRef, new_dom, RootRef)
          /\ \E base_target \in SyncbackTargets(t) :
                call = [fn |-> "syncback_process", base_target |-> base_target,
                        run |-> MaxRuns, vfs |-> vfs, tree |-> t]
    /\ ret = [fn |-> "none"]
    /\ syncable = NoRef
    /\ trace = << >>
    /\ processing = << >>
    /\ ids = {}
    /\ inner0 = << >>
    /\ pc = "idle"
    /\ last_op = [kind |-> "none"]
    /\ RemoveIdle

SpecSwap == InitSwap /\ [][NextProcess]_vars

\* A turn of the while loop can be taken: the stack holds a node, and the
\* node on top does not make remove() panic.
LoopTurnEnabled ==
    /\ pc = "syncback"
    /\ processing # << >>
    /\ ~ReplacesRoot(VecPop(processing).item)

\* The call runs on: it begins, the climb takes the turns it can take, the
\* loop takes a turn while the stack holds a node and returns when it is
\* empty.  The weak fairness of SyncbackStep is written out, with the
\* condition under which the action is enabled as a state predicate.
SpecSwapFair ==
    /\ SpecSwap
    /\ WF_vars(ProcessBegin) /\ WF_vars(ClimbStep) /\ WF_vars(SyncbackEnd)
    /\ ([]<>(~LoopTurnEnabled) \/ []<><<SyncbackStep>>_vars)

----------------------------------------------------------------------------
(* The specification of clone_and_filter on the subtrees of new trees      *)
(* three levels deep, under a save filter                                  *)

CloneProperties ==
    [Archivable |-> [type |-> "Bool", value |-> FALSE],
     Anchored |-> [type |-> "Bool", value |-> TRUE]]

CloneNode(class_name, name, properties, children) ==
    InstanceSnapshot([class_name |-> class_name, name |-> name, properties |-> properties],
                     InstanceMetadataNew, children)

CloneLeaves ==
    {CloneNode("Part", name, properties, << >>) :
        name \in {"a", "b"}, properties \in {NoProperties, CloneProperties}}

CloneBranches ==
    {CloneNode("Model", "X", properties, children) :
        properties \in {NoProperties, FolderProperties},
        children \in SeqsUpTo(CloneLeaves, 2)}

\* A root with up to two branches, each with up to two leaves.
CloneSnapshots ==
    {CloneNode("Folder", "R", CloneProperties, children) :
        children \in SeqsUpTo(CloneBranches, 2)}

\* property_filters_save: the properties stripped before the tree is written.
SaveFilters == {{}, {"Archivable"}}

InitClone ==
    /\ new_dom \in {RojoTreeNew(snapshot).inner : snapshot \in CloneSnapshots}
    /\ call \in {[fn |-> "clone_and_filter", property_filters_save |-> filter] :
                    filter \in SaveFilters}
    /\ ret = [fn |-> "none"]
    /\ diff = << >>
    /\ syncable = NoRef
    /\ trace = << >>
    /\ pc = "idle"
    /\ last_op = [kind |-> "none"]
    /\ TreeIdle
    /\ RemoveIdle
    /\ FixIdle
    /\ VfsIdle

\* clone_and_filter on the subtree of any instance of the new tree.
CloneAndFilter ==
    /\ pc = "idle"
    /\ call.fn = "clone_and_filter"
    /\ \E new \in DOMAIN new_dom :
          last_op' = [kind |-> "clone_and_filter", new |-> new,
                      result |-> clone_and_filter(
                          [new_tree |-> new_dom, new |-> new, old |-> None,
                           old_tree |-> Tree, parent_path |-> SrcPath,
                           property_filters_save |-> call.property_filters_save])]
    /\ pc' = "returned"
    /\ UNCHANGED <<treeVars, removeVars, fixVars, fnVars, vfs, syncVars>>

NextClone == CloneAndFilter

SpecClone == InitClone /\ [][NextClone]_vars

----------------------------------------------------------------------------
(* The specification of syncback_process with a new directory that holds   *)
(* children of several classes, one of them claimed by no middleware       *)

NewChild(class_name, name) ==
    InstanceSnapshot([class_name |-> class_name, name |-> name,
                      properties |-> NoProperties], InstanceMetadataNew, << >>)

NewChildren ==
    {NewChild("Folder", "D"), NewChild("Folder", "E"), NewChild(UnclaimedClass, "U"),
     NewChild(ProjectClass, "P")}

\* The tree with a new Folder put in that has up to three children.
NewDirEdits(snapshot) ==
    {[snapshot EXCEPT !.children = Append(@, NewFolder(NoProperties, children))] :
        children \in SeqsUpTo(NewChildren, 3)}

InitNewDir ==
    /\ vfs \in FileSystems
    /\ \E t \in {RojoTreeNew(snapshot_from_vfs(DefaultContext, vfs, SrcPath).value.value)} :
          /\ inner = t.inner
          /\ next_ref = t.next_ref
          /\ metadata_map = t.metadata_map
          /\ path_to_ids = t.path_to_ids
          /\ new_dom \in {RojoTreeNew(e).inner : e \in NewDirEdits(PlainSnapshot(t))}
          /\ diff = DeepDiffNew(t.inner, RootRef, new_dom, RootRef)
          /\ call = [fn |-> "syncback_process", base_target |-> RootRef,
                     run |-> MaxRuns, vfs |-> vfs, tree |-> t]
    /\ ret = [fn |-> "none"]
    /\ syncable = NoRef
    /\ trace = << >>
    /\ processing = << >>
    /\ ids = {}
    /\ inner0 = << >>
    /\ pc = "idle"
    /\ last_op = [kind |-> "none"]
    /\ RemoveIdle

SpecNewDir == InitNewDir /\ [][NextProcess]_vars

----------------------------------------------------------------------------
(* The specification of syncback_process on a tree one of whose            *)
(* directories has a middleware context syncback_update cannot use         *)

\* The context of a middleware other than the directory middleware.
OtherMiddlewareContext == [other |-> TRUE]

\* The contexts put in the place of a directory's: one that records an init
\* middleware and no init path, and one of another type.
BrokenContexts(context) ==
    {Some([init_middleware |-> Some("project"), init_context |-> None,
           init_path |-> None]),
     Some(OtherMiddlewareContext)}
    \cup (IF context.some /\ context.value.init_middleware.some
          THEN {Some([context.value EXCEPT !.init_path = None])} ELSE {})

\* New trees that change a directory and a directory inside it: the edits
\* of one place, and the first child changed together with its own first
\* child, with the root as it was or changed too.
DeepEdits(snapshot) ==
    SkipEdits(snapshot)
    \cup (IF FirstIsFolder(snapshot) /\ FirstIsFolder(snapshot.children[1])
          THEN {[e EXCEPT !.children[1].properties = ToggleProperties(@),
                          !.children[1].children[1].properties = ToggleProperties(@)] :
                    e \in {snapshot, [snapshot EXCEPT !.properties = ToggleProperties(@)]}}
          ELSE {})

Directories(t) ==
    {id \in DOMAIN t.inner : t.metadata_map[id].middleware_id = Some("directory")}

\* The tree as it is and with the context of one directory broken.
BrokenTrees(t) ==
    {t} \cup {[t EXCEPT !.metadata_map[d].middleware_context = context] :
                 <<d, context>> \in
                     UNION {{d} \X BrokenContexts(t.metadata_map[d].middleware_context) :
                               d \in Directories(t)}}

InitBroken ==
    /\ vfs \in FileSystems
    /\ \E whole \in {RojoTreeNew(snapshot_from_vfs(DefaultContext, vfs, SrcPath).value.value)} :
       \E t \in BrokenTrees(whole) :
          /\ inner = t.inner
          /\ next_ref = t.next_ref
          /\ metadata_map = t.metadata_map
          /\ path_to_ids = t.path_to_ids
          /\ new_dom \in {RojoTreeNew(e).inner : e \in DeepEdits(PlainSnapshot(t))}
          /\ diff = DeepDiffNew(t.inner, RootRef, new_dom, RootRef)
          /\ \E base_target \in Directories(t) :
                call = [fn |-> "syncback_process", base_target |-> base_target,
                        run |-> MaxRuns, vfs |-> vfs, tree |-> t]
    /\ ret = [fn |-> "none"]
    /\ syncable = NoRef
    /\ trace = << >>
    /\ processing = << >>
    /\ ids = {}
    /\ inner0 = << >>
    /\ pc = "idle"
    /\ last_op = [kind |-> "none"]
    /\ RemoveIdle

SpecBroken == InitBroken /\ [][NextProcess]_vars

\* The same call on a file system that may fail.
NextFallible ==
    \/ ProcessBegin
    \/ ClimbStep
    \/ SyncbackStepFallible
    \/ SyncbackEnd

SpecFallible == InitBroken /\ [][NextFallible]_vars

----------------------------------------------------------------------------
(* Properties of syncback_rbxm *)

\* The old instance is there and its subtree is the new subtree, instance
\* for instance (no property is filtered out in the model).
SameSubtree(op) ==
    /\ op.old.some
    /\ HashOf(new_dom, op.new) = HashOf(inner, op.old.value)

----------------------------------------------------------------------------
(* The specification of the directory middleware's forward snapshot *)

\* The file systems DirectoryMiddleware::snapshot is run on: those of the
\* syncback specification, the same with a model file as the init file of
\* /src, and the two of the tests of dir.rs (/foo, empty or holding Child).
FooPath == <<"foo">>

\* /src with or without an init.rbxm and an init.project.json, and /foo.
DirFileSystems ==
    UNION {{fs, (<<"src", "init.rbxm">> :> ModelFile) @@ fs,
            (<<"src", "init.project.json">> :> ProjectFile) @@ fs,
            (<<"src", "init.rbxm">> :> ModelFile)
                @@ (<<"src", "init.project.json">> :> ProjectFile) @@ fs} :
              fs \in FileSystems}
        \cup {(FooPath :> VfsDir), (FooPath :> VfsDir) @@ (<<"foo", "Child">> :> VfsDir)}

\* The orders the registry may list the middlewares in.
RegistryOrders == {MiddlewareIds, <<"directory", "rbxm", "project">>}

\* The default context and one whose ignore rules reject /src/A, under
\* either order of the registry.
DirContexts ==
    {[DefaultContext EXCEPT !.path_ignore_rules = rules, !.middlewares = middlewares] :
        rules \in {{}, {<<"src", "A">>}}, middlewares \in RegistryOrders}

InitDir ==
    /\ vfs \in DirFileSystems
    /\ \E path \in {p \in DOMAIN vfs : vfs[p].kind = "dir"}, context \in DirContexts :
          call = [fn |-> "snapshot", path |-> path, context |-> context]
    /\ ret = [fn |-> "none"]
    /\ pc = "idle"
    /\ last_op = [kind |-> "none"]
    /\ TreeIdle
    /\ RemoveIdle
    /\ FixIdle
    /\ SyncIdle

DirSnapshot ==
    /\ pc = "idle"
    /\ call.fn = "snapshot"
    /\ ret' = [fn |-> "snapshot",
               result |-> DirectoryMiddlewareSnapshot(call.context, vfs, call.path)]
    /\ pc' = "returned"
    /\ UNCHANGED <<call, notFn>>

NextDir == DirSnapshot

SpecDir == InitDir /\ [][NextDir]_vars

----------------------------------------------------------------------------
(* Properties of DirectoryMiddleware::snapshot *)

\* path/<init name> for every init name a middleware registers.
InitPaths(path) ==
    UNION {{PathJoin(path, name) : name \in Range(init_names(MiddlewareIds[i]))} :
              i \in DOMAIN MiddlewareIds}

\* The directory holds none of the init files: neither init.meta.json nor a
\* file under a name a middleware registers.
NoInitFile(fs, path) ==
    /\ ~VfsExists(fs, PathJoin(path, "init.meta.json"))
    /\ \A init_path \in InitPaths(path) : ~VfsExists(fs, init_path)

\* The entries of the directory that give an instance: the sub-directories
\* and the model files the context's rules let through.
SnapshottedEntries(context, fs, path) ==
    SelectSeq(VfsReadDir(fs, path),
              LAMBDA p : /\ p \notin context.path_ignore_rules
                         /\ \/ fs[p].kind = "dir"
                            \/ HoldsModel(fs, p) /\ PathFileName(p) \in DOMAIN RbxmStem)

\* C12: DirectoryMiddleware.snapshot of a directory with no init file gives
\* an instance named after the last path component, of class Folder, with
\* middleware_id "directory", with one child per snapshotted entry, in the
\* order of the entries (a sub-directory as a Folder under its own name), and
\* with relevant_paths holding the directory, its init.meta.json and
\* path/<init name> for every init name a middleware registers.
C12_DirectorySnapshotNoInit ==
    (ret.fn = "snapshot" /\ NoInitFile(vfs, call.path)) =>
        /\ ret.result.ok /\ ret.result.value.some
        /\ LET snapshot == ret.result.value.value
               entries == SnapshottedEntries(call.context, vfs, call.path)
           IN /\ snapshot.name = call.path[Len(call.path)]
              /\ snapshot.class_name = "Folder"
              /\ snapshot.metadata.middleware_id = Some("directory")
              /\ Len(snapshot.children) = Len(entries)
              /\ \A i \in DOMAIN entries :
                    vfs[entries[i]].kind = "dir" =>
                        /\ snapshot.children[i].name = entries[i][Len(entries[i])]
                        /\ NoInitFile(vfs, entries[i]) =>
                               snapshot.children[i].class_name = "Folder"
              /\ {call.path, PathJoin(call.path, "init.meta.json")}
                    \cup InitPaths(call.path)
                    \subseteq Range(snapshot.metadata.relevant_paths)

\* /foo, which holds the one directory Child, was snapshotted: one Folder
\* child named Child.
C12_Witness ==
    /\ ret.fn = "snapshot"
    /\ call.path = FooPath
    /\ NoInitFile(vfs, call.path)
    /\ Len(ret.result.value.value.children) = 1
    /\ ret.result.value.value.children[1].name = "Child"
    /\ ret.result.value.value.children[1].class_name = "Folder"

----------------------------------------------------------------------------
(* Properties of the ancestor climb *)

\* The node and its ancestors, nearest first, up to the root.
RECURSIVE AncestorsOrSelf(_, _)
AncestorsOrSelf(dom, id) ==
    IF id \notin DOMAIN dom THEN << >> ELSE <<id>> \o AncestorsOrSelf(dom, dom[id].parent)

\* The three conditions of the climb, read off the tree the call was given.
HasMiddleware(id) == call.tree.metadata_map[id].middleware_id # None

HasNewRef(id) == id \in DOMAIN diff

PathSourced(id) ==
    /\ call.tree.metadata_map[id].instigating_source # None
    /\ call.tree.metadata_map[id].instigating_source.value.kind = "Path"

Syncable(id) == HasMiddleware(id) /\ HasNewRef(id) /\ PathSourced(id)

\* C13: the node syncback_process starts at is the nearest ancestor-or-self
\* of base_target that has a middleware_id, a matching new ref in the diff
\* and a path as its instigating source; a node sourced from a project node
\* or from nothing is never chosen, and no node nearer to base_target than
\* the chosen one meets the three conditions.
C13_StartsAtNearestSyncable ==
    last_op.kind = "climb_found" =>
        LET chain == AncestorsOrSelf(call.tree.inner, call.base_target)
        IN \E i \in DOMAIN chain :
              /\ chain[i] = last_op.old_id
              /\ Syncable(chain[i])
              /\ \A j \in 1..(i - 1) : ~Syncable(chain[j])

\* The climb passed a node that has a middleware and a matching new ref but
\* is sourced from a project node, and stopped at its parent.
C13_Witness ==
    /\ last_op.kind = "climb_found"
    /\ last_op.old_id # call.base_target
    /\ \E id \in DOMAIN inner :
          /\ inner[id].parent = last_op.old_id
          /\ id \in Range(AncestorsOrSelf(inner, call.base_target))
          /\ HasMiddleware(id) /\ HasNewRef(id)
          /\ call.tree.metadata_map[id].instigating_source
                = Some(InstigatingSourceProjectNode(<<"default.project.json">>))

\* The call failed in the climb: base_target is not in the tree, or no node
\* from it up to the root is syncable.
ClimbFails ==
    \/ call.base_target \notin DOMAIN call.tree.inner
    \/ \A id \in Range(AncestorsOrSelf(call.tree.inner, call.base_target)) : ~Syncable(id)

\* No middleware was asked, nothing was written and the tree is as it was.
NothingDone ==
    /\ trace = << >>
    /\ processing = << >>
    /\ vfs = call.vfs
    /\ Tree = call.tree

ClimbFailsWithoutEffect ==
    (call.fn = "syncback_process" /\ ClimbFails) =>
        /\ NothingDone
        /\ pc \in {"idle", "climb", "returned"}
        /\ pc = "returned" =>
               /\ ret.fn = "syncback_process"
               /\ ~ret.result.ok
               /\ ret.result.error \in {"Missing ref", "No syncable ancestor"}

\* C14: the ancestor climb always comes to an end; when base_target is not
\* live, or no ancestor-or-self up to the root meets the three conditions,
\* syncback_process returns an error and has asked no middleware, written
\* nothing to the file system and left the tree, the metadata map and the
\* path index as they were.
C14_ClimbEndsAndFailsWithoutEffect ==
    /\ [](ClimbFailsWithoutEffect)
    /\ (pc = "climb") ~> (pc # "climb")
    /\ (call.fn = "syncback_process" /\ ClimbFails) ~> (pc = "returned")

\* A climb from an instance inside a model file, two levels below a root
\* that is sourced from a project node, has failed at the root.
C14_Witness ==
    /\ pc = "returned"
    /\ ret.fn = "syncback_process"
    /\ ret.result = Err("No syncable ancestor")
    /\ Len(AncestorsOrSelf(inner, call.base_target)) = 3
    /\ HasMiddleware(RootRef) /\ HasNewRef(RootRef) /\ ~PathSourced(RootRef)

----------------------------------------------------------------------------
(* Properties of the order in which syncback_process works *)

\* The new ref of the node the stack was primed with.
FirstNewRef == trace[2].ref

\* Before the k-th entry of the trace the node with new ref n was reconciled
\* and then applied to the tree.
ReconciledAndApplied(n, k) ==
    \E i, j \in 1..(k - 1) :
       /\ i < j
       /\ trace[i] = Event("reconcile", n)
       /\ trace[j] = Event("apply", n)

\* C15: within one run of syncback_process every node but the first is
\* pushed, reconciled and applied only after the node of its parent was
\* reconciled and applied to the tree.
C15_ParentBeforeChild ==
    /\ \A k \in DOMAIN trace :
          (trace[k].ev \in {"push", "reconcile", "apply"} /\ trace[k].ref # FirstNewRef)
              => ReconciledAndApplied(new_dom[trace[k].ref].parent, k)
    /\ \A i \in DOMAIN processing :
          \E k \in DOMAIN trace : trace[k] = Event("push", processing[i].new_ref)

\* A node two levels below the first node was applied: its parent, itself a
\* child of the first node, was reconciled and applied before it.
C15_Witness ==
    \E k \in DOMAIN trace :
       /\ trace[k].ev = "apply"
       /\ trace[k].ref # FirstNewRef
       /\ new_dom[trace[k].ref].parent # FirstNewRef
       /\ ReconciledAndApplied(new_dom[trace[k].ref].parent, k)
       /\ ReconciledAndApplied(FirstNewRef, k)

\* C16: a get_children closure, that of an init middleware inside a
\* directory node included, is called only after the node that owns it was
\* reconciled and applied to the tree.
C16_ChildrenAfterOwnerApplied ==
    \A k \in DOMAIN trace :
       trace[k].ev \in {"get_children", "init_get_children"}
           => ReconciledAndApplied(trace[k].ref, k)

\* The same for the closures the driver calls itself, and for the closure
\* of an init middleware that syncback_update keeps for later.
DriverCallsAfterOwnerApplied ==
    \A k \in DOMAIN trace :
       (\/ trace[k].ev = "get_children"
        \/ /\ trace[k].ev = "init_get_children"
           /\ trace[k].ref \in {diff[id] : id \in DOMAIN diff})
           => ReconciledAndApplied(trace[k].ref, k)

\* C17: whenever no tree operation is under way, get_root_id is the id the
\* tree was constructed with, and that id is live and has a metadata entry.
C17_RootIdStable ==
    pc # "remove" =>
        /\ get_root_id(Tree) = RootRef
        /\ get_root_id(Tree) \in DOMAIN inner
        /\ get_root_id(Tree) \in DOMAIN metadata_map

\* C18: update_props(id, snapshot) on a live id gives the node the class,
\* the name and exactly the property map of the snapshot, and leaves its
\* parent, its children, the set of live ids, every other node, the
\* metadata map, the path index and the ref counter as they were; the
\* snapshot's children and metadata have no effect.
UpdatePropsProperty ==
    last_op'.kind = "update_props" =>
        LET id == last_op'.id
            snapshot == last_op'.snapshot
        IN /\ inner'[id].class = snapshot.class_name
           /\ inner'[id].name = snapshot.name
           /\ inner'[id].properties = snapshot.properties
           /\ inner'[id].parent = inner[id].parent
           /\ inner'[id].children = inner[id].children
           /\ DOMAIN inner' = DOMAIN inner
           /\ \A r \in DOMAIN inner \ {id} : inner'[r] = inner[r]
           /\ metadata_map' = metadata_map
           /\ path_to_ids' = path_to_ids
           /\ next_ref' = next_ref

C18_UpdatePropsFrame == [][UpdatePropsProperty]_vars

\* update_props ran on a node that had a property the snapshot does not
\* name, with a snapshot that has a child and other metadata than the node.
C18_Witness ==
    /\ last_op.kind = "update_props"
    /\ last_op.had \ DOMAIN last_op.snapshot.properties # {}
    /\ last_op.snapshot.children # << >>
    /\ last_op.snapshot.metadata # metadata_map[last_op.id]
    /\ inner[last_op.id].children = << >>

\* Metadata the directory middleware made has the directory's path, its
\* instigating path, among its relevant_paths.
HoldsInstigatingPath(metadata) ==
    metadata.middleware_id = Some("directory") =>
        /\ metadata.instigating_source.some
        /\ metadata.instigating_source.value.kind = "Path"
        /\ metadata.instigating_source.value.path \in Range(metadata.relevant_paths)

\* The nodes of the tree: those a forward snapshot made and those syncback
\* inserted.
TreeHoldsInstigatingPath ==
    \A id \in DOMAIN metadata_map : HoldsInstigatingPath(metadata_map[id])

\* C19: the metadata of every directory node, be it in the tree (made by a
\* forward snapshot or inserted by syncback) or on the stack of syncback
\* (made by syncback_update or syncback_new), has the directory's path
\* among its relevant_paths.
C19_RelevantPathsHoldInstigatingPath ==
    /\ TreeHoldsInstigatingPath
    /\ \A i \in DOMAIN processing :
          HoldsInstigatingPath(processing[i].instance_snapshot.metadata)

\* The old children a run handed to remove(), with their descendants in the
\* tree the run started from.
RemovedByRun ==
    UNION {Descendants(call.before.inner, id) :
              id \in UNION {trace[k].refs : k \in DOMAIN trace}}

RunWithRemovalsEnded ==
    /\ last_op.kind = "syncback_end"
    /\ "before" \in DOMAIN call

\* The removed children and their descendants are gone from the tree.
RemovedChildrenLeaveTree ==
    RunWithRemovalsEnded =>
        /\ RemovedByRun \cap DOMAIN inner = {}
        /\ RemovedByRun \cap DOMAIN metadata_map = {}

\* C20: when a syncback has completed, every old child the directory diff
\* classified as removed is gone from the tree with its descendants, and no
\* file or directory its fs_snapshot recorded is left on the file system.
C20_RemovedChildrenDeleted ==
    RunWithRemovalsEnded =>
        /\ RemovedByRun \cap DOMAIN inner = {}
        /\ RemovedByRun \cap DOMAIN metadata_map = {}
        /\ \A id \in RemovedByRun :
              call.before.metadata_map[id].fs_snapshot.some =>
                  FsSnapshotPaths(call.before.metadata_map[id].fs_snapshot.value)
                      \cap DOMAIN vfs = {}

\* A path of the FsSnapshot of the node on top of the stack is rejected by
\* should_syncback_path.
TopIsRejected ==
    /\ pc = "syncback"
    /\ processing # << >>
    /\ LET metadata == processing[Len(processing)].instance_snapshot.metadata
       IN /\ metadata.fs_snapshot.some
          /\ \/ DOMAIN metadata.fs_snapshot.value.files
                    \cap metadata.context.syncback_ignore_paths # {}
             \/ metadata.fs_snapshot.value.dirs
                    \cap metadata.context.syncback_ignore_paths # {}

\* The step the driver takes from such a state: the node leaves the stack
\* and nothing else happens.
SkipProperty ==
    TopIsRejected =>
        /\ processing' = SubSeq(processing, 1, Len(processing) - 1)
        /\ UNCHANGED <<treeVars, vfs, trace, pc, ret>>

\* C21: a node whose FsSnapshot holds a path should_syncback_path rejects
\* is dropped: nothing is reconciled, the tree is not changed, get_children
\* is not called and no child is pushed, no error is returned, and the
\* driver goes on with the rest of the stack.
C21_RejectedNodeIsSkipped == [][SkipProperty]_vars

\* A node was skipped while another waits on the stack, and the skipped
\* node's directory was not written.
C21_Witness ==
    /\ last_op.kind = "syncback_skip"
    /\ processing # << >>
    /\ pc = "syncback"
    /\ <<"src", "A">> \in DOMAIN vfs
    /\ <<"src", "C">> \notin DOMAIN vfs

\* The node on top of the stack has an old ref and use_snapshot_children
\* set, and no path of its FsSnapshot is rejected.
TopReplaces ==
    /\ pc = "syncback"
    /\ processing # << >>
    /\ processing[Len(processing)].old_ref.some
    /\ processing[Len(processing)].use_snapshot_children
    /\ ~TopIsRejected

\* The refs insert_instance hands out for a snapshot and its descendants.
FreshRefs(snapshot) == next_ref .. (next_ref + SnapshotSize(snapshot) - 1)

IndexedUnder(t, id) ==
    \A i \in DOMAIN t.metadata_map[id].relevant_paths :
       id \in get_ids_at_path(t, t.metadata_map[id].relevant_paths[i])

NotIndexed(t, id) == \A path \in DOMAIN t.path_to_ids : id \notin t.path_to_ids[path]

\* What the step that processes such a node leaves behind.
ReplaceEffect(item) ==
    LET gone == Descendants(inner, item.old_ref.value)
        fresh == FreshRefs(item.instance_snapshot)
        t == [inner |-> inner', next_ref |-> next_ref',
              metadata_map |-> metadata_map', path_to_ids |-> path_to_ids']
    IN /\ gone \cap DOMAIN inner' = {}
       /\ gone \cap DOMAIN metadata_map' = {}
       /\ \A id \in gone : NotIndexed(t, id)
       /\ DOMAIN inner' = (DOMAIN inner \ gone) \cup fresh
       /\ inner'[next_ref].parent = item.parent_ref.value
       /\ next_ref \in Range(inner'[item.parent_ref.value].children)
       /\ InstanceSnapshotFromTree(inner', next_ref).children
             = [i \in DOMAIN item.instance_snapshot.children |->
                  InstanceSnapshotFromTree(RojoTreeNew(item.instance_snapshot.children[i]).inner,
                                           RootRef)]
       /\ \A id \in fresh : id \in DOMAIN metadata_map' /\ IndexedUnder(t, id)
       /\ metadata_map'[next_ref] = item.instance_snapshot.metadata
       /\ processing' = SubSeq(processing, 1, Len(processing) - 1)
       /\ \A k \in DOMAIN trace' :
             k > Len(trace) => trace'[k].ev \notin {"get_children", "init_get_children", "push"}

ReplaceProperty == TopReplaces => ReplaceEffect(processing[Len(processing)])

\* The same for the nodes whose old ref is not the root.
ReplaceBelowRootProperty ==
    TopReplaces /\ processing[Len(processing)].old_ref.value # get_root_id(Tree)
        => ReplaceEffect(processing[Len(processing)])

ReplacesBelowRoot == [][ReplaceBelowRootProperty]_vars

\* C22: the driver replaces the old instance of a node that has an old ref
\* and use_snapshot_children set: the old ref and its descendants are gone
\* from the tree, the metadata map and the path index; the snapshot with
\* all its children is live under parent_ref, each node with its metadata
\* and indexed under its relevant paths; get_children is not called and no
\* child is pushed.
C22_ReplacesWholesale == [][ReplaceProperty]_vars

\* C23: when the driver has reconciled and applied a node that has an old
\* ref and is updated in place, the fs_snapshot the tree stores for that
\* node is the one that was just reconciled.
C23_StoredFsSnapshotIsReconciled ==
    (/\ last_op.kind = "syncback_node"
     /\ last_op.old_ref.some
     /\ last_op.old_ref.value \in DOMAIN metadata_map)
        => metadata_map[last_op.old_ref.value].fs_snapshot = last_op.fs_snapshot

\* The middlewares that find an init file of theirs in the directory, in
\* registry order.
InitMiddlewaresPresent(context, fs, path) ==
    SelectSeq(context.middlewares,
              LAMBDA id : \E i \in DOMAIN init_names(id) :
                             VfsExists(fs, PathJoin(path, init_names(id)[i])))

\* The snapshot a middleware gives of its init file in the directory.
InitSnapshotBy(middleware_id, context, fs, path) ==
    InitMiddlewareSnapshot(middleware_id, context, fs,
                           PathJoin(path, init_names(middleware_id)[1])).value.value

\* A directory with an init file and no init.meta.json was snapshotted.
SnapshotWithInit ==
    /\ ret.fn = "snapshot"
    /\ ret.result.ok
    /\ ~VfsExists(vfs, PathJoin(call.path, "init.meta.json"))
    /\ InitMiddlewaresPresent(call.context, vfs, call.path) # << >>

\* C24: the class and the properties of the directory's instance are those
\* of the init snapshot of the first middleware, in registry order, that
\* finds its init file; a later middleware with an init file of its own
\* does not override it.
C24_FirstInitInRegistryOrderWins ==
    SnapshotWithInit =>
        LET first == Head(InitMiddlewaresPresent(call.context, vfs, call.path))
            init_snapshot == InitSnapshotBy(first, call.context, vfs, call.path)
            snapshot == ret.result.value.value
        IN /\ snapshot.class_name = init_snapshot.class_name
           /\ snapshot.properties = init_snapshot.properties
           /\ snapshot.metadata.middleware_context.value.init_middleware = Some(first)

\* The same with the last middleware in place of the first.
LastInitInRegistryOrderWins ==
    SnapshotWithInit =>
        LET present == InitMiddlewaresPresent(call.context, vfs, call.path)
            last == present[Len(present)]
            init_snapshot == InitSnapshotBy(last, call.context, vfs, call.path)
            snapshot == ret.result.value.value
        IN /\ snapshot.class_name = init_snapshot.class_name
           /\ snapshot.properties = init_snapshot.properties
           /\ snapshot.metadata.middleware_context.value.init_middleware = Some(last)

\* The snapshots of the directory's entries that pass the ignore rules and
\* are not named like an init file, in the order of the entries.
RECURSIVE SomeValues(_)
SomeValues(results) ==
    IF results = << >> THEN << >>
    ELSE (IF Head(results).value.some THEN <<Head(results).value.value>> ELSE << >>)
             \o SomeValues(Tail(results))

EntrySnapshots(context, fs, path) ==
    LET entries == SelectSeq(VfsReadDir(fs, path),
                             LAMBDA p : /\ p \notin context.path_ignore_rules
                                        /\ ~IsInitName(p[Len(p)]))
    IN SomeValues([i \in DOMAIN entries |-> snapshot_from_vfs(context, fs, entries[i])])

\* C25: with project as the directory's init middleware the children are
\* those of the project's init snapshot and no entry is enumerated; with
\* any other init middleware, or none, the children are the snapshots of
\* the entries that pass the ignore rules and are not named like an init
\* file, and the init snapshot's own children are not among them.
C25_ChildrenOfDirectorySnapshot ==
    (/\ ret.fn = "snapshot"
     /\ ret.result.ok
     /\ ~VfsExists(vfs, PathJoin(call.path, "init.meta.json"))) =>
        LET snapshot == ret.result.value.value
            context == snapshot.metadata.middleware_context
        IN IF context.some /\ context.value.init_middleware = Some("project")
           THEN snapshot.children
                    = InitSnapshotBy("project", call.context, vfs, call.path).children
           ELSE snapshot.children = EntrySnapshots(call.context, vfs, call.path)

----------------------------------------------------------------------------
(* Properties of the closure of syncback_update *)

\* The turn just taken called the closure syncback_update gave, and the
\* closure gave its answer.
UpdateClosureCalled ==
    /\ last_op'.kind = "syncback_node"
    /\ last_op'.closure.some
    /\ last_op'.closure.value.kind = "update"
    /\ pc' = "syncback"

\* What the diff says of the children of the old directory, read off the
\* tree as it was before the turn.
ClosureAdded ==
    {n \in SeqToSet(new_dom[last_op'.new_ref].children) :
        \A o \in DOMAIN diff : diff[o] # n}

ClosureRemoved ==
    {o \in SeqToSet(inner[last_op'.old_ref.value].children) : o \notin DOMAIN diff}

ClosureChanged ==
    {o \in SeqToSet(inner[last_op'.old_ref.value].children) :
        o \in DOMAIN diff /\ DeepDiffChanged(diff, inner, new_dom, o)}

ClosurePlanned ==
    {o \in ClosureChanged :
        /\ metadata_map[o].instigating_source.some
        /\ metadata_map[o].instigating_source.value.kind = "Path"
        /\ metadata_map[o].middleware_id.some}

ClosureGave == {last_op'.children[i] : i \in DOMAIN last_op'.children}

ClosureProperty ==
    UpdateClosureCalled =>
        /\ Cardinality(ClosureGave) = Len(last_op'.children)
        /\ IF last_op'.closure.value.init_middleware = Some("project")
           THEN ClosureGave = {} /\ last_op'.removed = {}
           ELSE /\ ClosureGave =
                      {[old_ref |-> None, new_ref |-> n] : n \in ClosureAdded}
                      \cup {[old_ref |-> Some(o), new_ref |-> diff[o]] :
                               o \in ClosurePlanned}
                /\ last_op'.removed = ClosureRemoved

\* C26: the closure of directory syncback update gives the children and
\* removals of its init middleware (the project middleware gives none) and,
\* only when the init middleware is not project, one node per added child,
\* one per changed child that has a snapshot source path and a plan, and
\* every removed old child in the removed set; unchanged children and changed
\* children without a snapshot source path are in neither, and with project
\* as the init middleware the diff is not consulted.
C26_UpdateClosureResult == [][ClosureProperty]_vars

\* A closure of syncback_update gave an added child and a changed one.
C26_Witness ==
    /\ last_op.kind = "syncback_node"
    /\ last_op.closure.some
    /\ last_op.closure.value.kind = "update"
    /\ \E i, j \in DOMAIN last_op.children :
          last_op.children[i].old_ref.some /\ ~last_op.children[j].old_ref.some

----------------------------------------------------------------------------
(* Properties of the init-file choice of syncback_update *)

\* The nodes on the stack that syncback_update returned.
UpdateNodes ==
    {processing[i] : i \in {k \in DOMAIN processing :
        /\ processing[k].old_ref.some
        /\ processing[k].get_children.some
        /\ processing[k].get_children.value.kind = "update"}}

\* The init middleware syncback_update chose for the node.
ChosenInit(node) == node.get_children.value.init_middleware

\* What the node returned says of the init file.
ReturnedContext(node) == node.instance_snapshot.metadata.middleware_context

\* What the old node records of its init file.
RecordedContext(node) == metadata_map[node.old_ref.value].middleware_context

RecordsInit(context) ==
    context.some /\ context.value.init_middleware.some /\ context.value.init_path.some

\* The context of a node with an init middleware records that middleware
\* and the path of the file it writes.
ChosenInitIsRecorded ==
    \A node \in UpdateNodes :
        ChosenInit(node).some =>
            /\ RecordsInit(ReturnedContext(node))
            /\ ReturnedContext(node).value.init_middleware = ChosenInit(node)
            /\ ReturnedContext(node).value.init_path.value
                   \in DOMAIN node.instance_snapshot.metadata.fs_snapshot.value.files

\* C27: the middleware_context of the node directory syncback update returns
\* records the init-file choice of this syncback: the chosen init middleware
\* with its context and path, and no init middleware when none is chosen.
C27_ContextRecordsThisChoice ==
    /\ ChosenInitIsRecorded
    /\ \A node \in UpdateNodes :
          ~ChosenInit(node).some =>
              \/ ~ReturnedContext(node).some
              \/ ~ReturnedContext(node).value.init_middleware.some

\* With no init middleware chosen the node returned carries the context of
\* the old node as it was.
ContextWithoutInitIsTheOldOne ==
    \A node \in UpdateNodes :
        ~ChosenInit(node).some => ReturnedContext(node) = RecordedContext(node)

\* The path the chosen init middleware was handed: the init node it returned
\* has it as its source path.
HandedInitPath(node) == ReturnedContext(node).value.init_path.value

\* C28: with an init middleware and an init path recorded, the path handed to
\* the chosen init middleware is the recorded path only when the chosen
\* middleware is the recorded one, and the chosen middleware's own
\* syncback_new_path(dir, "init") otherwise.
C28_InitPathBelongsToChosen ==
    \A node \in UpdateNodes :
        ChosenInit(node).some /\ RecordsInit(RecordedContext(node)) =>
            HandedInitPath(node) =
                IF ChosenInit(node) = RecordedContext(node).value.init_middleware
                THEN RecordedContext(node).value.init_path.value
                ELSE InitSyncbackNewPath(ChosenInit(node).value, node.path)

\* With an init middleware and an init path recorded, the chosen init
\* middleware is handed the recorded path, whichever middleware it is.
RecordedPathIsHanded ==
    \A node \in UpdateNodes :
        ChosenInit(node).some /\ RecordsInit(RecordedContext(node)) =>
            HandedInitPath(node) = RecordedContext(node).value.init_path.value

----------------------------------------------------------------------------
(* Properties of the order of removals and additions *)

\* The nodes on the stack that stand for a child added to an old directory:
\* they are yet to be reconciled and inserted.
AddedNodes ==
    {processing[i] : i \in {k \in DOMAIN processing :
        /\ ~processing[k].old_ref.some
        /\ processing[k].parent_ref.some
        /\ processing[k].parent_ref.value \in DOMAIN call.tree.inner}}

\* The old children of the directory that have no match in the new tree.
RemovedChildrenOf(dir) ==
    {o \in SeqToSet(call.tree.inner[dir].children) : o \notin DOMAIN diff}

\* C29: for every directory the driver processes, all of its removed old
\* children are out of the tree before any of its added children is
\* reconciled or inserted: while an added child waits on the stack, no
\* removed child of its directory is in the tree.
C29_RemovedBeforeAdded ==
    \A node \in AddedNodes :
        \A o \in RemovedChildrenOf(node.parent_ref.value) :
            o \notin DOMAIN inner /\ o \notin DOMAIN metadata_map

\* An added child waits on the stack and its directory had a child removed.
C29_Witness ==
    \E node \in AddedNodes : RemovedChildrenOf(node.parent_ref.value) # {}

----------------------------------------------------------------------------
(* Properties of the loop of syncback_process *)

\* How often the run did ev to the node of the new instance ref, and how
\* often that node is on the stack.
Count(ev, ref) ==
    Cardinality({k \in DOMAIN trace : trace[k].ev = ev /\ trace[k].ref = ref})

OnStack(ref) ==
    Cardinality({k \in DOMAIN processing : processing[k].new_ref = ref})

\* The run was ended by a step that failed.
RunFailed == pc = "returned" /\ ret.fn = "syncback_process" /\ ~ret.result.ok

\* The run returned Ok(()).
RunOk == pc = "returned" /\ ret.fn = "syncback" /\ ret.result.ok

\* A node is pushed at most once; what was pushed was popped (reconciled and
\* applied) once or is still on the stack; a closure is called at most once,
\* and only for a node that was applied.
ProcessAccounting ==
    \A ref \in DOMAIN new_dom :
        /\ Count("push", ref) <= 1
        /\ Count("reconcile", ref) <= Count("push", ref)
        /\ Count("apply", ref) = Count("reconcile", ref)
        /\ ~RunFailed => Count("push", ref) = Count("reconcile", ref) + OnStack(ref)
        /\ Count("get_children", ref) <= Count("apply", ref)
        /\ Count("init_get_children", ref) <= 1

\* The loop ends when the stack is empty and not before, with Ok(()).
LoopEndsOnEmptyStack ==
    /\ RunOk => processing = << >>
    /\ pc = "syncback" /\ processing # << >> => ~RunOk'
    /\ pc = "syncback" /\ processing = << >> => RunOk'

\* C30: syncback_process terminates: every node pushed onto the stack is
\* popped exactly once, every get_children closure is called at most once,
\* and the loop ends exactly when the stack is empty, with Ok(()) when no
\* step failed.
C30_ProcessTerminates ==
    /\ [](ProcessAccounting)
    /\ [][LoopEndsOnEmptyStack]_vars
    /\ <>(pc = "returned")
    /\ (pc = "syncback") ~> (RunOk \/ RunFailed)

\* A run that pushed four nodes and called the closures of three of them
\* has returned Ok(()), every node popped.
C30_Witness ==
    /\ RunOk
    /\ Cardinality({k \in DOMAIN trace : trace[k].ev = "push"}) >= 4
    /\ Cardinality({k \in DOMAIN trace : trace[k].ev = "get_children"}) >= 3
    /\ \A ref \in DOMAIN new_dom : Count("push", ref) = Count("reconcile", ref)

----------------------------------------------------------------------------
(* Properties of name_for_inst with an old instance *)

\* The final component of a path, when it has one that names a file: the
\* last segment that is not ".", unless it is ".." or the path has none.
FinalComponent(path) ==
    LET named == {i \in DOMAIN path : path[i] # <<Dot>> /\ path[i] # << >>}
        last == CHOOSE i \in named : \A j \in named : j <= i
    IN IF named = {} \/ path[Len(path)] = << >> THEN None
       ELSE IF path[last] = <<Dot, Dot>> THEN None
       ELSE Some(path[last])

ValidUnicode(name) == \A i \in DOMAIN name : name[i] \notin 55296..57343

\* The old instance of the call has a source whose path ends in a file name
\* that is valid Unicode.
OldHasFileName ==
    /\ call.old_inst.value.instigating_source.some
    /\ FinalComponent(call.old_inst.value.instigating_source.value.path).some
    /\ ValidUnicode(FinalComponent(call.old_inst.value.instigating_source.value.path).value)

\* C33: with an old instance, name_for_inst returns the final path component
\* of the old instance's instigating source, whatever the new instance's
\* name and the middleware are, and an error when the old instance has no
\* instigating source or its path has no Unicode file name.
C33_OldNameIsKept ==
    (ret.fn = "name_for_inst" /\ call.old_inst.some) =>
        IF OldHasFileName
        THEN ret.result =
                 [outcome |-> "ok",
                  value |-> FinalComponent(
                                call.old_inst.value.instigating_source.value.path).value]
        ELSE ret.result.outcome = "err"

\* A directory middleware was asked for the name of a node "MyFolder" whose
\* old instance is sourced from src/foo.luau, and gave "foo.luau".
C33_Witness ==
    /\ ret.fn = "name_for_inst"
    /\ ret.middleware = "Dir"
    /\ call.name = <<77, 121, 70, 111, 108, 100, 101, 114>>
    /\ call.old_inst.value.instigating_source.some
    /\ call.old_inst.value.instigating_source.value.path
           = << <<115, 114, 99>>, <<102, 111, 111, 46, 108, 117, 97, 117>> >>
    /\ ret.result = [outcome |-> "ok", value |-> <<102, 111, 111, 46, 108, 117, 97, 117>>]

----------------------------------------------------------------------------
(* Properties of clone_and_filter *)

\* The subtree of b in to is that of a in from: class and name at every
\* node, the properties the filter leaves, as many children in the same
\* order, each with the copy of its parent as its parent.
RECURSIVE SameShape(_, _, _, _, _)
SameShape(from, a, to, b, filter) ==
    /\ to[b].class = from[a].class
    /\ to[b].name = from[a].name
    /\ DOMAIN to[b].properties = DOMAIN from[a].properties \ filter
    /\ \A k \in DOMAIN to[b].properties : to[b].properties[k] = from[a].properties[k]
    /\ Len(to[b].children) = Len(from[a].children)
    /\ \A i \in DOMAIN from[a].children :
          /\ to[b].children[i] \in DOMAIN to
          /\ to[to[b].children[i]].parent = b
          /\ SameShape(from, from[a].children[i], to, to[b].children[i], filter)

RECURSIVE SubtreeSize(_, _)
SubtreeSize(dom, id) ==
    IF dom[id].children = << >> THEN 1
    ELSE 1 + SubtreeSize(dom, Head(dom[id].children))
           + SubtreeSize([dom EXCEPT ![id].children = Tail(@)], id) - 1

\* C35: clone_and_filter gives a tree with the shape of the subtree rooted at
\* snapshot.new (class, name, parent and child order at every node, the
\* filtered properties) and nothing else under its empty root; the ref it
\* returns is the copy of snapshot.new; and neither lookup of the loop fails.
C35_CloneIsIsomorphic ==
    last_op.kind = "clone_and_filter" =>
        /\ ~last_op.result.panic
        /\ LET dom == last_op.result.dom
               referent == last_op.result.referent
           IN /\ dom[RootRef].children = <<referent>>
              /\ dom[RootRef].parent = NoRef
              /\ dom[referent].parent = RootRef
              /\ Cardinality(DOMAIN dom) = 1 + SubtreeSize(new_dom, last_op.new)
              /\ SameShape(new_dom, last_op.new, dom, referent, call.property_filters_save)

\* The whole of a tree with two branches of two leaves each was cloned under
\* a filter that strips a property the root has: the copies of the second
\* branch's leaves have other refs than the leaves.
C35_Witness ==
    /\ last_op.kind = "clone_and_filter"
    /\ last_op.new = RootRef
    /\ call.property_filters_save = {"Archivable"}
    /\ ~last_op.result.panic
    /\ Cardinality(DOMAIN new_dom) = 7
    /\ \E b \in DOMAIN new_dom :
          /\ new_dom[b].parent = RootRef
          /\ new_dom[RootRef].children[2] = b
          /\ new_dom[b].children # last_op.result.dom[
                 last_op.result.dom[last_op.result.referent].children[2]].children

----------------------------------------------------------------------------
(* Properties of the closure of syncback_new *)

\* The turn just taken called the closure syncback_new gave for a directory
\* without a project init file, and the closure gave its answer.
NewClosureCalled ==
    /\ last_op'.kind = "syncback_node"
    /\ last_op'.closure.some
    /\ last_op'.closure.value.kind = "new"
    /\ last_op'.closure.value.init_middleware # Some("project")
    /\ pc' = "syncback"

\* The children of the new instance that some middleware is selected for.
SelectedChildren ==
    SelectSeq(new_dom[last_op'.new_ref].children,
              LAMBDA c : new_dom[c].class # UnclaimedClass)

\* What the turn put on the stack.
Pushed == SubSeq(processing', Len(processing), Len(processing'))

NewClosureProperty ==
    NewClosureCalled =>
        /\ Len(Pushed) = Len(SelectedChildren)
        /\ \A i \in DOMAIN SelectedChildren :
              /\ Pushed[i].new_ref = SelectedChildren[i]
              /\ Pushed[i].old_ref = None
              /\ Pushed[i].path
                     = PathJoin(last_op'.path, new_dom[SelectedChildren[i]].name)
        /\ last_op'.removed = {}

\* C32: the closure of directory syncback new, with an init middleware other
\* than project, gives exactly one node without old ref for each child of
\* the new instance that a middleware is selected for, in child order, each
\* at the selected middleware's syncback_new_path under the directory's
\* path; a child no middleware is selected for is passed over without an
\* error, and nothing is removed.
C32_NewClosureResult == [][NewClosureProperty]_vars

\* The closure of a new directory gave two nodes and passed over a child no
\* middleware claims that stands between them.
C32_Witness ==
    /\ last_op.kind = "syncback_node"
    /\ last_op.closure.some
    /\ last_op.closure.value.kind = "new"
    /\ pc = "syncback"
    /\ Len(last_op.children) = 2
    /\ Len(new_dom[last_op.new_ref].children) = 3
    /\ new_dom[new_dom[last_op.new_ref].children[2]].class = UnclaimedClass

----------------------------------------------------------------------------
(* Properties of the errors of syncback_update *)

\* The directory's context, in the tree the call started from, is one
\* syncback_update cannot use: it is not a DirectoryMiddlewareContext, or it
\* records an init middleware and no init path.
BrokenDir(d) ==
    /\ d \in DOMAIN call.tree.inner
    /\ call.tree.metadata_map[d].middleware_id = Some("directory")
    /\ call.tree.metadata_map[d].middleware_context.some
    /\ LET context == call.tree.metadata_map[d].middleware_context.value
       IN \/ "init_middleware" \notin DOMAIN context
          \/ context.init_middleware.some /\ ~context.init_path.some

\* The call has returned an error and left nothing on the stack.
Failed == pc' = "returned" /\ ~ret'.result.ok /\ processing' = << >>

\* The climb found such a directory and asked its middleware for the first
\* node: the call fails and nothing is touched.
ClimbFailsOnBroken ==
    (last_op'.kind = "climb_found" /\ BrokenDir(last_op'.old_id))
        => Failed /\ UNCHANGED <<treeVars, vfs>>

\* The changed children with a source path of the directory the turn
\* handled, which its closure asks syncback_update for.
UpdatedChildren ==
    {c \in SeqToSet(DeepDiffGetChildren(diff, inner, new_dom,
                                        last_op'.old_ref.value).changed) :
        snapshot_source_path(metadata_map[c]).some}

\* The closure of a directory met such a directory among the children it
\* updates: the closure, and with it the call, fails.
ClosureFailsOnBroken ==
    (/\ last_op'.kind = "syncback_node"
     /\ last_op'.closure.some
     /\ last_op'.closure.value.kind = "update"
     /\ last_op'.closure.value.init_middleware # Some("project")
     /\ \E c \in UpdatedChildren : BrokenDir(c))
        => Failed

\* No node of such a directory is ever put on the stack, reconciled or
\* applied.
NothingDoneForBroken ==
    \A i \in DOMAIN trace :
        trace[i].ev \in {"push", "reconcile", "apply", "get_children"}
            => ~\E d \in DOMAIN diff : BrokenDir(d) /\ diff[d] = trace[i].ref

\* C34: directory syncback update fails with an error and returns no node,
\* so that nothing is reconciled or applied for the directory, when the old
\* directory context records an init middleware but no init path, or when
\* the old middleware context is not a DirectoryMiddlewareContext.
C34_UpdateFailsOnBrokenContext ==
    /\ [][ClimbFailsOnBroken /\ ClosureFailsOnBroken]_vars
    /\ []NothingDoneForBroken

\* The closure of the root met a child directory whose context records an
\* init middleware and no init path, after the root itself was reconciled
\* and applied; the call failed.
C34_Witness ==
    /\ pc = "returned"
    /\ ~ret.result.ok
    /\ \E i \in DOMAIN trace : trace[i] = Event("apply", diff[RootRef])
    /\ \E d \in DOMAIN diff :
          /\ BrokenDir(d)
          /\ inner[d].parent = RootRef
          /\ "init_middleware" \in DOMAIN call.tree.metadata_map[d].middleware_context.value

----------------------------------------------------------------------------
(* Properties of a failed run of syncback_process *)

\* The turn just taken ended the loop with an error.
FailedTurn == pc = "syncback" /\ pc' = "returned" /\ ~ret'.result.ok

ReconcileFailed == FailedTurn /\ last_op'.kind = "reconcile_failed"

ClosureFailed == FailedTurn /\ last_op'.kind = "syncback_node"

\* The node the turn took from the stack.
Current == VecPop(processing).item

\* The error is returned at once: the stack is given up, and nothing is done
\* but for the node the turn took.
ReturnsAtOnce ==
    FailedTurn =>
        /\ processing' = << >>
        /\ Len(trace') > Len(trace)
        /\ SubSeq(trace', 1, Len(trace)) = trace
        /\ \A i \in (Len(trace) + 1)..Len(trace') : trace'[i].ref = Current.new_ref

\* The paths the node's reconcile may touch: those of its old and of its new
\* FsSnapshot, and what lies below them.
CurrentPaths ==
    (IF Current.old_ref.some /\ metadata_map[Current.old_ref.value].fs_snapshot.some
     THEN FsSnapshotPaths(metadata_map[Current.old_ref.value].fs_snapshot.value)
     ELSE {})
    \cup (IF Current.instance_snapshot.metadata.fs_snapshot.some
          THEN FsSnapshotPaths(Current.instance_snapshot.metadata.fs_snapshot.value)
          ELSE {})

\* Nothing is taken back: every instance and every metadata entry the tree
\* held is still there as it was, but for the node of this turn and the
\* child a parent gained, and so is every file the node's reconcile has
\* nothing to do with.
NothingUndone ==
    FailedTurn =>
        /\ \A id \in DOMAIN inner :
              /\ id \in DOMAIN inner'
              /\ inner'[id].parent = inner[id].parent
              /\ SeqToSet(inner[id].children) \subseteq SeqToSet(inner'[id].children)
              /\ Current.old_ref # Some(id) => inner'[id].properties = inner[id].properties
        /\ \A id \in DOMAIN metadata_map :
              id \in DOMAIN metadata_map' /\ metadata_map'[id] = metadata_map[id]
        /\ \A path \in DOMAIN vfs :
              \/ \E touched \in CurrentPaths : IsPrefix(touched, path)
              \/ path \in DOMAIN vfs' /\ vfs'[path] = vfs[path]

\* A failed reconcile leaves the tree alone; a failed closure comes after
\* the node was reconciled and put in the tree.
CurrentIsKept ==
    /\ ReconcileFailed => UNCHANGED treeVars
    /\ ClosureFailed =>
          /\ IF Current.old_ref.some
             THEN inner'[Current.old_ref.value].properties
                      = Current.instance_snapshot.properties
             ELSE /\ next_ref \in DOMAIN inner'
                  /\ inner'[next_ref].name = Current.instance_snapshot.name
                  /\ inner'[next_ref].parent = Current.parent_ref.value
          /\ LET fs_snapshot == Current.instance_snapshot.metadata.fs_snapshot
             IN fs_snapshot.some =>
                   /\ fs_snapshot.value.dirs \subseteq DOMAIN vfs'
                   /\ \A path \in DOMAIN fs_snapshot.value.files :
                         /\ path \in DOMAIN vfs'
                         /\ vfs'[path] = VfsFile(fs_snapshot.value.files[path])

\* What the loop applied is in the tree: the instance of every node applied
\* so far has the class, the name and the properties of its new instance.
AppliedStays ==
    \A i \in DOMAIN trace :
        trace[i].ev = "apply" =>
            \E id \in DOMAIN inner :
                /\ id \in DOMAIN diff => diff[id] = trace[i].ref
                /\ inner[id].class = new_dom[trace[i].ref].class
                /\ inner[id].name = new_dom[trace[i].ref].name
                /\ inner[id].properties = new_dom[trace[i].ref].properties

\* Every live id has a metadata entry and the path index names live ids
\* only.
TreeSound == Live \subseteq DOMAIN metadata_map /\ IndexRefsLive

\* C31: if reconcile or a get_children closure fails while the driver
\* handles a node, syncback_process returns that error at once: no further
\* stack entry is handled, and what was done to the file system and to the
\* tree for earlier nodes (and, when it is the closure that fails, for the
\* node itself) stays as it is; in that state every live id still has a
\* metadata entry and the path index has no entry for an id that is not
\* live.
C31_FailureKeepsWhatWasDone ==
    /\ [][ReturnsAtOnce /\ NothingUndone /\ CurrentIsKept]_vars
    /\ [][pc # "returned"]_vars
    /\ [](TreeSound /\ AppliedStays)

\* The closure of a directory failed after the directory itself, changed in
\* the new tree, was reconciled and applied and its file written; an earlier
\* node had been applied before it.
C31_Witness ==
    /\ pc = "returned"
    /\ ~ret.result.ok
    /\ last_op.kind = "syncback_node"
    /\ last_op.old_ref.some
    /\ inner[last_op.old_ref.value] # call.tree.inner[last_op.old_ref.value]
    /\ last_op.written # {}
    /\ Cardinality({i \in DOMAIN trace : trace[i].ev = "apply"}) >= 2

====
